---- MODULE Spec2Model ----
(***************************************************************************)
(* A model of the image-rider disk-image decoding core.                    *)
(*                                                                         *)
(* Each part of the library is modelled as a small state machine over its  *)
(* own variables; the pure byte-level functions of the source are          *)
(* operators that keep the source's names, indices (0-based functions for  *)
(* arrays and slices) and integer widths (u8 arithmetic is taken mod 256,  *)
(* u16 arithmetic mod 65536).                                              *)
(***************************************************************************)
EXTENDS Integers, Sequences, FiniteSets, TLC

(***************************************************************************)
(* u8 / u16 arithmetic                                                     *)
(***************************************************************************)
Pow2(k) == <<1, 2, 4, 8, 16, 32, 64, 128, 256>>[k + 1]

Bit(x, k) == (x \div Pow2(k)) % 2

And8(a, b) ==
  Bit(a,0)*Bit(b,0) + 2*Bit(a,1)*Bit(b,1) + 4*Bit(a,2)*Bit(b,2)
  + 8*Bit(a,3)*Bit(b,3) + 16*Bit(a,4)*Bit(b,4) + 32*Bit(a,5)*Bit(b,5)
  + 64*Bit(a,6)*Bit(b,6) + 128*Bit(a,7)*Bit(b,7)

Xor8(a, b) ==
  ((Bit(a,0)+Bit(b,0)) % 2) + 2*((Bit(a,1)+Bit(b,1)) % 2)
  + 4*((Bit(a,2)+Bit(b,2)) % 2) + 8*((Bit(a,3)+Bit(b,3)) % 2)
  + 16*((Bit(a,4)+Bit(b,4)) % 2) + 32*((Bit(a,5)+Bit(b,5)) % 2)
  + 64*((Bit(a,6)+Bit(b,6)) % 2) + 128*((Bit(a,7)+Bit(b,7)) % 2)

Or8(a, b) == a + b - And8(a, b)

Shl8(a, n) == (a * Pow2(n)) % 256

Shr8(a, n) == a \div Pow2(n)

Byte == 0..255

(***************************************************************************)
(* Program state.  Every part of the library has its own variables; a      *)
(* specification of one part keeps the variables of the others at NoValue. *)
(*                                                                         *)
(* Configuration                                                           *)
(*   ignore_checksums the "ignore-checksums" setting: "true", "false" or   *)
(*                    "absent"                                             *)
(* Nibble data-field codec                                                 *)
(*   sector_in        the 256-byte buffer handed to build_nibble_sector    *)
(*   data_field       the DataField built from it (data, checksum)         *)
(*   sector_out       what transform_data_field produced: a Sector or the  *)
(*                    panic it ended with                                  *)
(*   nib_pc           position of the round trip                           *)
(* Nibble address-field parser                                             *)
(*   nibble_stream    the bytes handed to find_and_parse_address_field     *)
(*   address_result   its outcome: Ok (rest, AddressField), Incomplete, or *)
(*                    the panic it ended with                              *)
(* Build                                                                   *)
(*   overflow_checks  whether the build panics on integer overflow (debug  *)
(*                    profile) or wraps (release profile)                  *)
(* Catalog file entries                                                    *)
(*   file_entry       the FileEntry handed to as_vec                       *)
(*   entry_bytes      the outcome of as_vec                                *)
(*   parsed_entry     the outcome of parse_file_entry on those bytes       *)
(*   parsed_filename  the outcome of filename() on the parsed entry        *)
(* Apple DOS 3.3 volume decoding (volume_parser and what it calls)          *)
(*   disk_image       the image bytes: [len, bytes], bytes a function from *)
(*                    the offsets that hold a non-zero byte to that byte   *)
(*   dos_pc           position inside volume_parser                        *)
(*   vtoc             the parsed VolumeTableOfContents                     *)
(*   catalog_sector   raw_tracks[17][2], the sector the catalog walk       *)
(*                    starts at                                            *)
(*   catalog          the Catalog sector parse_catalogs holds (its next    *)
(*                    pointer)                                             *)
(*   file_entries     the entries collected by parse_catalogs              *)
(*   cat_visits       catalog sectors parsed so far by parse_catalogs      *)
(*   file_index       the entry build_files is working on (1-based)        *)
(*   track_sector_lists  the lists collected by build_file for that entry  *)
(*   tsl_next         build_file's (track, sector) continuation            *)
(*   tsl_visits       track/sector-list sectors parsed so far by           *)
(*                    build_file for that entry                            *)
(*   get_data_result  the outcome of get_data for the entry build_files    *)
(*                    has just built                                       *)
(*   files            the Files map built so far: name -> lists and data   *)
(*   dos_result       the outcome of volume_parser                         *)
(* Image guessing and dispatch (file_parser)                               *)
(*   fp_filename      the file name, split at '.'                          *)
(*   fp_metadata      what fs::metadata gives for that name: the file size *)
(*                    or an error                                          *)
(*   fp_data          the bytes handed to the parser: [len, bytes]         *)
(*   commodore        whether the build has the "commodore" feature        *)
(*   decoder_outcome  how the decoder chosen for the guess ends on fp_data *)
(*   fp_guess         the Option<DiskImageGuess> of                        *)
(*                    format_from_filename_and_data                        *)
(*   fp_pc            position inside file_parser                          *)
(*   fp_result        the outcome of file_parser                           *)
(* Saving (save_disk_image of AppleDOSDisk and NibbleDisk)                 *)
(*   sv_disk          the disk saved: a DOS disk with its files, or a      *)
(*                    nibble disk with its sectors in iteration order      *)
(*   sv_selected      the selected_filename argument                       *)
(*   sv_create_ok     whether File::create succeeds on the output name     *)
(*   sv_fail_after    how many non-empty writes the output file accepts    *)
(*                    before a write fails                                 *)
(*   sv_file          the output file: absent, or its content              *)
(*   sv_log           the file-system calls made and how each ended        *)
(*   sv_pc            position of the save                                 *)
(*   sv_result        the outcome of save_disk_image                       *)
(* Commodore D64 block availability map                                    *)
(*   d64_image        the image bytes: [len, bytes] as for disk_image      *)
(*   d64_pc           position of the parse                                *)
(*   d64_result       the outcome of d64_block_availability_map_parser     *)
(* Atari STX sector headers                                                *)
(*   stx_header_bytes the bytes handed to stx_sector_header_parser         *)
(*   stx_result       its outcome: Ok (rest, STXSectorHeader), Error, or   *)
(*                    the panic it ended with                              *)
(* Nibble disk decoding (parse_nib_disk)                                   *)
(*   nibble_layout    how the image was laid out: the fields written to it, in*)
(*                    order, and how it ends                               *)
(*   nibble_image     the bytes handed to parse_nib_disk                   *)
(*   nd_result        its outcome: Ok (rest, NibbleDisk), Incomplete, Error or*)
(*                    the panic it ended with                              *)
(* Catalog file entries read from disk and written back                    *)
(*   catalog_entry_bytes  the 35 on-disk bytes handed to parse_file_entry  *)
(*   catalog_entry    the outcome of parse_file_entry on them              *)
(*   reserialized     the outcome of as_vec on the parsed entry            *)
(* Track/sector lists written and read back                                *)
(*   tsl_list         the TrackSectorList handed to as_vec                 *)
(*   tsl_bytes        the outcome of as_vec                                *)
(*   tsl_parsed       the outcome of parse_track_sector_list on those bytes*)
(* Commodore D64 geometry                                                  *)
(*   tb_track         the track number handed to track_to_block_length     *)
(*   tb_result        its outcome: Ok(blocks) or Err(message)              *)
(* 4-and-4 decoding                                                        *)
(*   pair_input       the bytes handed to parse_nibble_byte_4_and_4        *)
(*   pair_result      its outcome: Ok (rest, byte) or Incomplete           *)
(* track/sector-list sectors                                               *)
(*   list_sector          a 256-byte sector handed to parse_track_sector_list*)
(*   list_sector_result   its outcome                                      *)
(* parse_prologue, step by step                                            *)
(*   prologue_input   the bytes handed to parse_prologue                   *)
(*   new_i            the offset in them where the next search starts      *)
(*   matched_pair     the offsets at which the loop has found D5 AA, in order*)
(*   loop_count       the iterations of the loop so far (not program state)*)
(*   prologue_result  the outcome of parse_prologue                        *)
(* STX tracks                                                              *)
(*   stx_image           the bytes handed to stx_tracks_parser(n), as [len, bytes]*)
(*   stx_tracks_left     the tracks count(stx_track_parser, n) has still to parse*)
(*   stx_position        the offset in the image where the input that is left starts*)
(*   stx_tracks          the tracks parsed so far, each with the offset it started at*)
(*   stx_tracks_result   the outcome of stx_tracks_parser                  *)
(* 6-and-2 table lookups                                                   *)
(*   table_index      a byte: an index into the read table and, below 64, into the write table*)
(*   table_lookup     what the tables hold there                           *)
(* CRC step                                                                *)
(*   crc_before       the CRC before the byte is added                     *)
(*   crc_byte         the byte to add                                      *)
(*   crc_after        what crc16_add_byte returned                         *)
(* nibblize_data                                                           *)
(*   nibblize_input   the bytes handed to nibblize_data                    *)
(*   nibblized        what nibblize_data returned                          *)
(* boot sector sum                                                         *)
(*   boot_sector      the bytes handed to calculate_boot_sector_sum_from_words*)
(*   boot_sector_sum  what it returned                                     *)
(***************************************************************************)
VARIABLES ignore_checksums, overflow_checks,
          sector_in, data_field, sector_out, nib_pc,
          nibble_stream, address_result,
          file_entry, entry_bytes, parsed_entry, parsed_filename,
          disk_image, dos_pc, vtoc, catalog_sector, catalog, file_entries,
          cat_visits, file_index, track_sector_lists, tsl_next, tsl_visits,
          get_data_result, files, dos_result,
          fp_filename, fp_metadata, fp_data, commodore, decoder_outcome,
          fp_guess, fp_pc, fp_result,
          sv_disk, sv_selected, sv_create_ok, sv_fail_after, sv_file, sv_log,
          sv_pc, sv_result,
          d64_image, d64_pc, d64_result,
          stx_header_bytes, stx_result,
          nibble_layout, nibble_image, nd_result,
          catalog_entry_bytes, catalog_entry, reserialized,
          tsl_list, tsl_bytes, tsl_parsed,
          tb_track, tb_result,
          pair_input, pair_result,
          list_sector, list_sector_result,
          prologue_input, new_i, matched_pair, loop_count, prologue_result,
          stx_image, stx_tracks_left, stx_position, stx_tracks, stx_tracks_result,
          table_index, table_lookup,
          crc_before, crc_byte, crc_after,
          nibblize_input, nibblized,
          boot_sector, boot_sector_sum

bsVars == <<boot_sector, boot_sector_sum>>

nzVars == <<nibblize_input, nibblized>>

crcVars == <<crc_before, crc_byte, crc_after>>

tabVars == <<table_index, table_lookup>>

stVars == <<stx_image, stx_tracks_left, stx_position, stx_tracks, stx_tracks_result>>

ppVars == <<prologue_input, new_i, matched_pair, loop_count, prologue_result>>

tsVars == <<list_sector, list_sector_result>>

p4Vars == <<pair_input, pair_result>>

tbVars == <<tb_track, tb_result>>

tlVars == <<tsl_list, tsl_bytes, tsl_parsed>>

ceVars == <<catalog_entry_bytes, catalog_entry, reserialized>>

ndVars == <<nibble_layout, nibble_image, nd_result>>

stxVars == <<stx_header_bytes, stx_result>>

d64Vars == <<d64_image, d64_pc, d64_result>>

svVars == <<sv_disk, sv_selected, sv_create_ok, sv_fail_after, sv_file, sv_log,
            sv_pc, sv_result>>

fpVars == <<fp_filename, fp_metadata, fp_data, commodore, decoder_outcome,
            fp_guess, fp_pc, fp_result>>

dosVars == <<disk_image, dos_pc, vtoc, catalog_sector, catalog, file_entries,
             cat_visits, file_index, track_sector_lists, tsl_next, tsl_visits,
             get_data_result, files, dos_result>>

cfgVars == <<ignore_checksums, overflow_checks>>

feVars == <<file_entry, entry_bytes, parsed_entry, parsed_filename>>

nibVars == <<sector_in, data_field, sector_out, nib_pc>>

addrVars == <<nibble_stream, address_result>>

vars == <<cfgVars, nibVars, addrVars, feVars, dosVars, fpVars, svVars, d64Vars, stxVars, ndVars, ceVars, tlVars, tbVars, p4Vars, tsVars, ppVars, stVars, tabVars, crcVars, nzVars, bsVars>>

\* the variables a part leaves alone
NotNib == <<addrVars, feVars, dosVars, fpVars, svVars, d64Vars, stxVars, ndVars, ceVars, tlVars, tbVars, p4Vars, tsVars, ppVars, stVars, tabVars, crcVars, nzVars, bsVars>>

NotAddr == <<nibVars, feVars, dosVars, fpVars, svVars, d64Vars, stxVars, ndVars, ceVars, tlVars, tbVars, p4Vars, tsVars, ppVars, stVars, tabVars, crcVars, nzVars, bsVars>>

NotFe == <<nibVars, addrVars, dosVars, fpVars, svVars, d64Vars, stxVars, ndVars, ceVars, tlVars, tbVars, p4Vars, tsVars, ppVars, stVars, tabVars, crcVars, nzVars, bsVars>>

NotDos == <<nibVars, addrVars, feVars, fpVars, svVars, d64Vars, stxVars, ndVars, ceVars, tlVars, tbVars, p4Vars, tsVars, ppVars, stVars, tabVars, crcVars, nzVars, bsVars>>

NotFp == <<nibVars, addrVars, feVars, dosVars, svVars, d64Vars, stxVars, ndVars, ceVars, tlVars, tbVars, p4Vars, tsVars, ppVars, stVars, tabVars, crcVars, nzVars, bsVars>>

NotSv == <<nibVars, addrVars, feVars, dosVars, fpVars, d64Vars, stxVars, ndVars, ceVars, tlVars, tbVars, p4Vars, tsVars, ppVars, stVars, tabVars, crcVars, nzVars, bsVars>>

NotD64 == <<nibVars, addrVars, feVars, dosVars, fpVars, svVars, stxVars, ndVars, ceVars, tlVars, tbVars, p4Vars, tsVars, ppVars, stVars, tabVars, crcVars, nzVars, bsVars>>

NotStx == <<nibVars, addrVars, feVars, dosVars, fpVars, svVars, d64Vars, ndVars, ceVars, tlVars, tbVars, p4Vars, tsVars, ppVars, stVars, tabVars, crcVars, nzVars, bsVars>>

NotNd == <<nibVars, addrVars, feVars, dosVars, fpVars, svVars, d64Vars, stxVars, ceVars, tlVars, tbVars, p4Vars, tsVars, ppVars, stVars, tabVars, crcVars, nzVars, bsVars>>

NotCe == <<nibVars, addrVars, feVars, dosVars, fpVars, svVars, d64Vars, stxVars, ndVars, tlVars, tbVars, p4Vars, tsVars, ppVars, stVars, tabVars, crcVars, nzVars, bsVars>>

NotTl == <<nibVars, addrVars, feVars, dosVars, fpVars, svVars, d64Vars, stxVars, ndVars, ceVars, tbVars, p4Vars, tsVars, ppVars, stVars, tabVars, crcVars, nzVars, bsVars>>

NotTb == <<nibVars, addrVars, feVars, dosVars, fpVars, svVars, d64Vars, stxVars, ndVars, ceVars, tlVars, p4Vars, tsVars, ppVars, stVars, tabVars, crcVars, nzVars, bsVars>>

NotP4 == <<nibVars, addrVars, feVars, dosVars, fpVars, svVars, d64Vars, stxVars, ndVars, ceVars, tlVars, tbVars, tsVars, ppVars, stVars, tabVars, crcVars, nzVars, bsVars>>

NotTs == <<nibVars, addrVars, feVars, dosVars, fpVars, svVars, d64Vars, stxVars, ndVars, ceVars, tlVars, tbVars, p4Vars, ppVars, stVars, tabVars, crcVars, nzVars, bsVars>>

NotPp == <<nibVars, addrVars, feVars, dosVars, fpVars, svVars, d64Vars, stxVars, ndVars, ceVars, tlVars, tbVars, p4Vars, tsVars, stVars, tabVars, crcVars, nzVars, bsVars>>

NotSt == <<nibVars, addrVars, feVars, dosVars, fpVars, svVars, d64Vars, stxVars, ndVars, ceVars, tlVars, tbVars, p4Vars, tsVars, ppVars, tabVars, crcVars, nzVars, bsVars>>

NotTab == <<nibVars, addrVars, feVars, dosVars, fpVars, svVars, d64Vars, stxVars, ndVars, ceVars, tlVars, tbVars, p4Vars, tsVars, ppVars, stVars, crcVars, nzVars, bsVars>>

NotCrc == <<nibVars, addrVars, feVars, dosVars, fpVars, svVars, d64Vars, stxVars, ndVars, ceVars, tlVars, tbVars, p4Vars, tsVars, ppVars, stVars, tabVars, nzVars, bsVars>>

NotNz == <<nibVars, addrVars, feVars, dosVars, fpVars, svVars, d64Vars, stxVars, ndVars, ceVars, tlVars, tbVars, p4Vars, tsVars, ppVars, stVars, tabVars, crcVars, bsVars>>

NotBs == <<nibVars, addrVars, feVars, dosVars, fpVars, svVars, d64Vars, stxVars, ndVars, ceVars, tlVars, tbVars, p4Vars, tsVars, ppVars, stVars, tabVars, crcVars, nzVars>>

NoValue == [kind |-> "none"]

NibIdle == sector_in = NoValue /\ data_field = NoValue /\ sector_out = NoValue /\ nib_pc = "idle"

AddrIdle == nibble_stream = NoValue /\ address_result = NoValue

FeIdle ==
  /\ file_entry = NoValue /\ entry_bytes = NoValue
  /\ parsed_entry = NoValue /\ parsed_filename = NoValue

DosIdle ==
  /\ disk_image = NoValue /\ dos_pc = "idle" /\ vtoc = NoValue
  /\ catalog_sector = 0 /\ catalog = NoValue /\ file_entries = <<>>
  /\ cat_visits = 0 /\ file_index = 0 /\ track_sector_lists = <<>>
  /\ tsl_next = NoValue /\ tsl_visits = 0 /\ get_data_result = NoValue
  /\ files = <<>> /\ dos_result = NoValue

FpIdle ==
  /\ fp_filename = NoValue /\ fp_metadata = NoValue /\ fp_data = NoValue
  /\ commodore = FALSE /\ decoder_outcome = "none" /\ fp_guess = NoValue
  /\ fp_pc = "idle" /\ fp_result = NoValue

SvIdle ==
  /\ sv_disk = NoValue /\ sv_selected = NoValue /\ sv_create_ok = FALSE
  /\ sv_fail_after = 0 /\ sv_file = NoValue /\ sv_log = <<>>
  /\ sv_pc = "idle" /\ sv_result = NoValue

D64Idle == d64_image = NoValue /\ d64_pc = "idle" /\ d64_result = NoValue

StxIdle == stx_header_bytes = NoValue /\ stx_result = NoValue

NdIdle == nibble_layout = NoValue /\ nibble_image = NoValue /\ nd_result = NoValue

CeIdle == catalog_entry_bytes = NoValue /\ catalog_entry = NoValue /\ reserialized = NoValue

TlIdle == tsl_list = NoValue /\ tsl_bytes = NoValue /\ tsl_parsed = NoValue

TbIdle == tb_track = NoValue /\ tb_result = NoValue

P4Idle == pair_input = NoValue /\ pair_result = NoValue

TsIdle == list_sector = NoValue /\ list_sector_result = NoValue

PpIdle == prologue_input = NoValue /\ new_i = NoValue /\ matched_pair = NoValue /\ loop_count = NoValue /\ prologue_result = NoValue

StIdle == stx_image = NoValue /\ stx_tracks_left = NoValue /\ stx_position = NoValue /\ stx_tracks = NoValue /\ stx_tracks_result = NoValue

TabIdle == table_index = NoValue /\ table_lookup = NoValue

CrcIdle == crc_before = NoValue /\ crc_byte = NoValue /\ crc_after = NoValue

NzIdle == nibblize_input = NoValue /\ nibblized = NoValue

BsIdle == boot_sector = NoValue /\ boot_sector_sum = NoValue

(***************************************************************************)
(* Apple nibble codec: the 6-and-2 tables (nibble.rs)                      *)
(***************************************************************************)
NIBBLE_WRITE_TABLE_6_AND_2 ==
  <<
     150, 151, 154, 155, 157, 158, 159, 166, 167, 171, 172, 173, 174, 175, 178, 179,
     180, 181, 182, 183, 185, 186, 187, 188, 189, 190, 191, 203, 205, 206, 207, 211,
     214, 215, 217, 218, 219, 220, 221, 222, 223, 229, 230, 231, 233, 234, 235, 236,
     237, 238, 239, 242, 243, 244, 245, 246, 247, 249, 250, 251, 252, 253, 254, 255 >>

NIBBLE_READ_TABLE_6_AND_2 ==
  <<
       0,   0,   0,   0,   0,   0,   0,   0,   0,   0,   0,   0,   0,   0,   0,   0,
       0,   0,   0,   0,   0,   0,   0,   0,   0,   0,   0,   0,   0,   0,   0,   0,
       0,   0,   0,   0,   0,   0,   0,   0,   0,   0,   0,   0,   0,   0,   0,   0,
       0,   0,   0,   0,   0,   0,   0,   0,   0,   0,   0,   0,   0,   0,   0,   0,
       0,   0,   0,   0,   0,   0,   0,   0,   0,   0,   0,   0,   0,   0,   0,   0,
       0,   0,   0,   0,   0,   0,   0,   0,   0,   0,   0,   0,   0,   0,   0,   0,
       0,   0,   0,   0,   0,   0,   0,   0,   0,   0,   0,   0,   0,   0,   0,   0,
       0,   0,   0,   0,   0,   0,   0,   0,   0,   0,   0,   0,   0,   0,   0,   0,
       0,   0,   0,   0,   0,   0,   0,   0,   0,   0,   0,   0,   0,   0,   0,   0,
       0,   0,   0,   0,   0,   0,   0,   1,   0,   0,   2,   3,   0,   4,   5,   6,
       0,   0,   0,   0,   0,   0,   7,   8,   0,   0,   0,   9,  10,  11,  12,  13,
       0,   0,  14,  15,  16,  17,  18,  19,   0,  20,  21,  22,  23,  24,  25,  26,
       0,   0,   0,   0,   0,   0,   0,   0,   0,   0,   0,  27,   0,  28,  29,  30,
       0,   0,   0,  31,   0,   0,  32,  33,   0,  34,  35,  36,  37,  38,  39,  40,
       0,   0,   0,   0,   0,  41,  42,  43,   0,  44,  45,  46,  47,  48,  49,  50,
       0,   0,  51,  52,  53,  54,  55,  56,   0,  57,  58,  59,  60,  61,  62,  63 >>

WriteTable(k) == NIBBLE_WRITE_TABLE_6_AND_2[k + 1]

\* a lookup one entry further on
ReadTable_NextEntry(b) == NIBBLE_READ_TABLE_6_AND_2[((b + 1) % 256) + 1]

ReadTable(b) == NIBBLE_READ_TABLE_6_AND_2[b + 1]

\* config.settings.get_bool("ignore-checksums").unwrap_or(false)
get_bool_ignore_checksums(setting) == setting = "true"

\* (((d & 0x1) << 1) | ((d & 0x2) >> 1)): the low two bits of d, swapped
SwapLowBits(d) == Or8(Shl8(And8(d, 1), 1), Shr8(And8(d, 2), 1))

\* nibble_data before the checksum pass: 0x56 auxiliary bytes, the 256 data
\* bytes, two trailing zero bytes
NibbleData(data) ==
  [k \in 0..343 |->
     IF k < 86 THEN
       LET val == Or8(Or8(Shl8(SwapLowBits(data[(k + 172) % 256]), 6),
                          Shl8(SwapLowBits(data[(k + 86) % 256]), 4)),
                      Shl8(SwapLowBits(data[k % 256]), 2))
       IN IF k >= 84 THEN And8(val, 63) ELSE val
     ELSE IF k < 342 THEN data[k - 86]
     ELSE 0]

\* the checksum pass: item ^= checksum; checksum = saved_data, over all 344
\* items; yields the chained items and the final checksum
ChecksumPass(nd) ==
  [items |-> [k \in 0..343 |-> IF k = 0 THEN nd[0] ELSE Xor8(nd[k], nd[k - 1])],
   checksum |-> nd[343]]

build_nibble_sector(data) ==
  LET pass == ChecksumPass(NibbleData(data))
  IN [kind |-> "DataField",
      data |-> [k \in 0..341 |-> WriteTable(Shr8(pass.items[k], 2))],
      checksum |-> pass.checksum]

\* the running XOR of the read-table lookups over data[lo..hi-1], entered
\* with computed_checksum = c: element j is computed_checksum after the loop
\* body for index lo + j - 1 (the loop is split in halves to keep the
\* evaluation shallow)
RECURSIVE RunningChecksum(_, _, _, _)
RunningChecksum(d, lo, hi, c) ==
  IF hi - lo = 1 THEN << Xor8(c, ReadTable(d[lo])) >>
  ELSE LET mid == (lo + hi) \div 2
           left == RunningChecksum(d, lo, mid, c)
       IN left \o RunningChecksum(d, mid, hi, left[Len(left)])

\* a data_field_build_buffer that leaves the stored checksum out
data_field_build_buffer_NoStoredChecksum(df) ==
  LET run == RunningChecksum(df.data, 0, 342, 0)
  IN [buffer |-> [j \in 0..341 |->
                    IF j < 256 THEN run[j + 86 + 1] ELSE run[342 - j - 1 + 1]],
      computed_checksum |-> run[342]]

data_field_build_buffer(df) ==
  LET run == RunningChecksum(df.data, 0, 342, 0)
  IN [buffer |-> [j \in 0..341 |->
                    IF j < 256 THEN run[j + 86 + 1] ELSE run[342 - j - 1 + 1]],
      computed_checksum |-> Xor8(run[342], ReadTable(df.checksum))]

reverse_values == <<0, 2, 1, 3>>

transform_data_field(setting, df) ==
  LET bb == data_field_build_buffer(df)
  IN IF bb.computed_checksum # 0 /\ ~get_bool_ignore_checksums(setting)
     THEN [kind |-> "panic",
           msg |-> <<"Invalid checksum on data", bb.computed_checksum, df.checksum>>]
     ELSE [kind |-> "Sector",
           data |-> [i \in 0..255 |->
                      LET byte_1 == bb.buffer[i]
                          byte_2 == bb.buffer[342 - (i % 86) - 1]
                          shift_pairs == (i \div 86) * 2
                      IN Or8(Shl8(byte_1, 2),
                             reverse_values[And8(Shr8(byte_2, shift_pairs), 3) + 1])]]

(***************************************************************************)
(* Inputs of the data-field round trip: 256-byte buffers i -> a*i + c      *)
(* (mod 256) with one byte overwritten, which reach every auxiliary-buffer *)
(* lane and both small and large values of the last byte.                  *)
(***************************************************************************)
MaxStride == 2

MaxOffset == 1

EditPositions == {0, 85, 86, 171, 172, 255}

EditValues == {0, 3, 4, 255}

SectorBuffer(a, c, p, v) ==
  [i \in 0..255 |-> IF i = p THEN v ELSE (a * i + c * 255) % 256]

SectorInputs ==
  { SectorBuffer(a, c, p, v) :
      a \in 0..MaxStride, c \in 0..MaxOffset, p \in EditPositions, v \in EditValues }

IgnoreSettings == {"true", "false", "absent"}

InitNibble ==
  /\ sector_in \in SectorInputs
  /\ ignore_checksums \in IgnoreSettings
  /\ data_field = NoValue
  /\ sector_out = NoValue
  /\ nib_pc = "input"
  /\ overflow_checks = "any"
  /\ AddrIdle /\ FeIdle /\ DosIdle /\ FpIdle /\ SvIdle /\ D64Idle /\ StxIdle /\ NdIdle /\ CeIdle /\ TlIdle /\ TbIdle /\ P4Idle /\ TsIdle /\ PpIdle /\ StIdle /\ TabIdle /\ CrcIdle /\ NzIdle /\ BsIdle

BuildNibbleSector ==
  /\ nib_pc = "input"
  /\ data_field' = build_nibble_sector(sector_in)
  /\ nib_pc' = "built"
  /\ UNCHANGED <<sector_in, sector_out, cfgVars, NotNib>>

TransformDataField ==
  /\ nib_pc = "built"
  /\ sector_out' = transform_data_field(ignore_checksums, data_field)
  /\ nib_pc' = "decoded"
  /\ UNCHANGED <<sector_in, data_field, cfgVars, NotNib>>

NextNibble == BuildNibbleSector \/ TransformDataField

SpecNibble == InitNibble /\ [][NextNibble]_vars

\* C1: for every 256-byte buffer b, decoding build_nibble_sector(b) with
\* transform_data_field (ignore-checksums absent or false) ends without a
\* checksum failure and returns a sector whose 256 data bytes equal b.
C1_RoundTrip ==
  (nib_pc = "decoded" /\ ~get_bool_ignore_checksums(ignore_checksums))
    => (sector_out.kind = "Sector" /\ sector_out.data = sector_in)

\* C28: for every 256-byte buffer b, the data field built by
\* build_nibble_sector(b) carries a checksum the decoder accepts:
\* data_field_build_buffer on that field returns a computed checksum of 0.
C28_BuiltChecksumAccepted ==
  data_field # NoValue =>
    data_field_build_buffer(data_field).computed_checksum = 0

\* what the decoder computes for a built field: the top six bits of the
\* last byte of the buffer
C28_ComputedIsLastByteShifted ==
  data_field # NoValue =>
    /\ data_field.checksum = 0
    /\ data_field_build_buffer(data_field).computed_checksum = Shr8(sector_in[255], 2)

(***************************************************************************)
(* Byte-slice parser primitives (nom), on sequences of bytes.  A parser    *)
(* returns [kind |-> "Ok", rest, value] or a failure record.               *)
(***************************************************************************)
Min(S) == CHOOSE x \in S : \A y \in S : x <= y

Drop(i, n) == SubSeq(i, n + 1, Len(i))

\* nom::bytes::streaming::take(n)
take_streaming(n, i) ==
  IF Len(i) < n THEN [kind |-> "Incomplete"]
  ELSE [kind |-> "Ok", rest |-> Drop(i, n), value |-> SubSeq(i, 1, n)]

\* nom::bytes::streaming::take_until(pattern): the input up to the first
\* occurrence of the pattern; Incomplete when there is none
take_until_streaming(pattern, i) ==
  LET found == { k \in 1..(Len(i) - Len(pattern) + 1) :
                   SubSeq(i, k, k + Len(pattern) - 1) = pattern }
  IN IF found = {} THEN [kind |-> "Incomplete"]
     ELSE [kind |-> "Ok", rest |-> Drop(i, Min(found) - 1),
           value |-> SubSeq(i, 1, Min(found) - 1)]

(***************************************************************************)
(* Address fields (nibble.rs)                                              *)
(***************************************************************************)
\* a decoding that does not shift the first byte
Decode4And4_NoShift(first, second) == And8(Or8(first, 1), second)

\* ((bytes[0] << 1) | 0x01) & bytes[1]
Decode4And4(first, second) == And8(Or8(Shl8(first, 1), 1), second)

parse_nibble_byte_4_and_4(i) ==
  LET r == take_streaming(2, i)
  IN IF r.kind # "Ok" THEN r
     ELSE [kind |-> "Ok", rest |-> r.rest, value |-> Decode4And4(r.value[1], r.value[2])]

AddressPrologue == <<213, 170, 150>>

\* a checksum that forgets the sector
ComputedAddressChecksum_NoSector(volume, track, sector) == Xor8(volume, track)

\* volume ^ track ^ sector
ComputedAddressChecksum(volume, track, sector) == Xor8(Xor8(volume, track), sector)

find_and_parse_address_field(setting, i) ==
  LET r0 == take_until_streaming(AddressPrologue, i)
  IN IF r0.kind # "Ok" THEN r0 ELSE
  LET r1 == take_streaming(3, r0.rest)
  IN IF r1.kind # "Ok" THEN r1 ELSE
  LET rv == parse_nibble_byte_4_and_4(r1.rest)
  IN IF rv.kind # "Ok" THEN rv ELSE
  LET rt == parse_nibble_byte_4_and_4(rv.rest)
  IN IF rt.kind # "Ok" THEN rt ELSE
  LET rs == parse_nibble_byte_4_and_4(rt.rest)
  IN IF rs.kind # "Ok" THEN rs ELSE
  LET rc == parse_nibble_byte_4_and_4(rs.rest)
  IN IF rc.kind # "Ok" THEN rc ELSE
  LET re == take_streaming(3, rc.rest)
  IN IF re.kind # "Ok" THEN re ELSE
  LET computed_checksum == ComputedAddressChecksum(rv.value, rt.value, rs.value)
      address_field == [volume |-> rv.value, track |-> rt.value,
                        sector |-> rs.value, checksum |-> rc.value]
  IN IF computed_checksum # rc.value /\ ~get_bool_ignore_checksums(setting)
     THEN [kind |-> "panic",
           msg |-> <<"Address field computed checksum not equal to disk checksum",
                     computed_checksum, rc.value>>]
     ELSE [kind |-> "Ok", rest |-> re.rest, value |-> address_field]

(***************************************************************************)
(* Inputs of the address-field parser: up to MaxJunk bytes of a false      *)
(* start, a prologue, four 4-and-4 pairs, and up to MaxTail bytes of what  *)
(* follows (the epilogue is DE AA EB).                                     *)
(***************************************************************************)
MaxJunk == 4

MaxTail == 4

JunkBytes == <<213, 170, 0, 213, 170>>

TailBytes == <<222, 170, 235, 213, 170>>

VolumePairs == {<<255, 254>>, <<0, 1>>}

TrackPairs == {<<171, 191>>, <<0, 0>>, <<170, 170>>}

SectorPairs == {<<170, 175>>, <<255, 255>>}

ChecksumPairs == {<<254, 238>>, <<0, 0>>, <<0, 1>>, <<255, 255>>}

PrologueThirdBytes == {150, 181}

AddressStreams ==
  { SubSeq(JunkBytes, 1, j) \o <<213, 170, p>> \o v \o t \o s \o c \o SubSeq(TailBytes, 1, e) :
      j \in 0..MaxJunk, p \in PrologueThirdBytes, v \in VolumePairs, t \in TrackPairs,
      s \in SectorPairs, c \in ChecksumPairs, e \in 2..MaxTail }

InitAddress ==
  /\ ignore_checksums \in IgnoreSettings
  /\ nibble_stream \in AddressStreams
  /\ address_result = NoValue
  /\ overflow_checks = "any"
  /\ NibIdle /\ FeIdle /\ DosIdle /\ FpIdle /\ SvIdle /\ D64Idle /\ StxIdle /\ NdIdle /\ CeIdle /\ TlIdle /\ TbIdle /\ P4Idle /\ TsIdle /\ PpIdle /\ StIdle /\ TabIdle /\ CrcIdle /\ NzIdle /\ BsIdle

FindAndParseAddressField ==
  /\ address_result = NoValue
  /\ address_result' = find_and_parse_address_field(ignore_checksums, nibble_stream)
  /\ UNCHANGED <<nibble_stream, cfgVars, NotAddr>>

NextAddress == FindAndParseAddressField

SpecAddress == InitAddress /\ [][NextAddress]_vars

\* the offset (0-based) of the first prologue D5 AA 96 in the stream, or -1
FirstPrologue(i) ==
  LET found == { k \in 0..(Len(i) - 3) : SubSeq(i, k + 1, k + 3) = AddressPrologue }
  IN IF found = {} THEN -1 ELSE Min(found)

\* C3: on an input holding the prologue D5 AA 96 followed by at least 11
\* bytes, find_and_parse_address_field decodes volume, track, sector and
\* checksum as the four 4-and-4 bytes after the prologue; when
\* volume XOR track XOR sector equals the stored checksum it returns the
\* field; when they differ and ignore-checksums is false or absent it ends
\* fatally with 'Address field computed checksum not equal to disk checksum:
\* <computed> <stored>'; when they differ and ignore-checksums is true it
\* returns the field with the stored checksum.
C3_AddressField ==
  LET i == nibble_stream
      p == FirstPrologue(i)
      B(k) == i[p + k + 1]
      volume == Decode4And4(B(3), B(4))
      track == Decode4And4(B(5), B(6))
      sector == Decode4And4(B(7), B(8))
      stored == Decode4And4(B(9), B(10))
      computed == ((volume + track + sector)
                    - 2 * (And8(volume, track) + And8(volume, sector) + And8(track, sector))
                    + 4 * And8(And8(volume, track), sector))
      field == [volume |-> volume, track |-> track, sector |-> sector, checksum |-> stored]
  IN (address_result # NoValue /\ p >= 0 /\ Len(i) - (p + 3) >= 11)
       => IF computed = stored \/ ignore_checksums = "true"
          THEN /\ address_result.kind = "Ok"
               /\ address_result.value = field
               /\ address_result.rest = Drop(i, p + 14)
          ELSE /\ address_result.kind = "panic"
               /\ address_result.msg =
                    <<"Address field computed checksum not equal to disk checksum",
                      computed, stored>>

\* a checksum mismatch with ignore-checksums off has ended in the panic
C3_Witness ==
  /\ address_result # NoValue
  /\ address_result.kind = "panic"
  /\ ignore_checksums \in {"false", "absent"}

\* a checksum mismatch with ignore-checksums on has returned the field
C3_WitnessIgnored ==
  /\ address_result # NoValue
  /\ address_result.kind = "Ok"
  /\ address_result.value.checksum #
       ComputedAddressChecksum(address_result.value.volume, address_result.value.track,
                               address_result.value.sector)

(***************************************************************************)
(* nom::...::complete primitives, on sequences of bytes                    *)
(***************************************************************************)
\* nom::bytes::complete::take(n)
take(n, i) ==
  IF Len(i) < n THEN [kind |-> "Error", code |-> "Eof"]
  ELSE [kind |-> "Ok", rest |-> Drop(i, n), value |-> SubSeq(i, 1, n)]

\* nom::number::complete::le_u8
le_u8(i) ==
  IF Len(i) < 1 THEN [kind |-> "Error", code |-> "Eof"]
  ELSE [kind |-> "Ok", rest |-> Drop(i, 1), value |-> i[1]]

\* nom::number::complete::le_u16
le_u16(i) ==
  IF Len(i) < 2 THEN [kind |-> "Error", code |-> "Eof"]
  ELSE [kind |-> "Ok", rest |-> Drop(i, 2), value |-> i[1] + 256 * i[2]]

\* the two bytes of a word, high byte first
little_endian_word_to_bytes_HighFirst(word) == << (word \div 256) % 256, word % 256 >>

\* vec![(word & 0xFF) as u8, ((word >> 8) & 0xFF) as u8]
little_endian_word_to_bytes(word) == << word % 256, (word \div 256) % 256 >>

(***************************************************************************)
(* Apple DOS 3.3 catalog file entries (catalog.rs)                         *)
(***************************************************************************)
FileTypes ==
  {"Text", "IntegerBasic", "AppleSoftBasic", "Binary", "SType",
   "RelocatableObjectModule", "AType", "BType", "Unknown"}

\* `file_type as u8`: the enum discriminants (Unknown follows BType = 40)
FileTypeAsU8(ft) ==
  CASE ft = "Text" -> 0
    [] ft = "IntegerBasic" -> 1
    [] ft = "AppleSoftBasic" -> 2
    [] ft = "Binary" -> 4
    [] ft = "SType" -> 8
    [] ft = "RelocatableObjectModule" -> 10
    [] ft = "AType" -> 20
    [] ft = "BType" -> 40
    [] ft = "Unknown" -> 41

\* the match in parse_file_entry on file_type & 0x7F
FileTypeFromCode(code) ==
  CASE code = 0 -> "Text"
    [] code = 1 -> "IntegerBasic"
    [] code = 2 -> "AppleSoftBasic"
    [] code = 4 -> "Binary"
    [] code = 8 -> "SType"
    [] code = 10 -> "RelocatableObjectModule"
    [] code = 20 -> "AType"
    [] code = 40 -> "BType"
    [] OTHER -> "Unknown"

\* a limit that lets a name of 31 bytes through
MaxFileNameBytes_ThirtyOne == 30 + 1

\* (num_bytes == 0) || (num_bytes > 30)
MaxFileNameBytes == 30

FilePadding == 160

\* FileEntry::as_vec
FileEntry_as_vec(fe, checks) ==
  LET file_type == IF fe.locked THEN FileTypeAsU8(fe.file_type) + 128
                   ELSE FileTypeAsU8(fe.file_type)
      num_bytes == Len(fe.file_name)
  IN IF num_bytes = 0 \/ num_bytes > MaxFileNameBytes
     THEN [kind |-> "Err", err |-> <<"Invalid", "Filename size is invalid", num_bytes>>]
     ELSE IF checks /\ \E k \in 1..num_bytes : fe.file_name[k] + 128 > 255
     THEN [kind |-> "panic", msg |-> <<"attempt to add with overflow">>]
     ELSE [kind |-> "Ok",
           value |-> << fe.track_of_first_track_sector_list_sector,
                        fe.sector_of_first_track_sector_list_sector,
                        file_type >>
                     \o [k \in 1..num_bytes |-> (fe.file_name[k] + 128) % 256]
                     \o [k \in 1..(MaxFileNameBytes - num_bytes) |-> FilePadding]
                     \o little_endian_word_to_bytes(fe.file_length_in_sectors)]

parse_file_entry(i) ==
  LET r1 == le_u8(i)
  IN IF r1.kind # "Ok" THEN r1 ELSE
  LET r2 == le_u8(r1.rest)
  IN IF r2.kind # "Ok" THEN r2 ELSE
  LET r3 == le_u8(r2.rest)
  IN IF r3.kind # "Ok" THEN r3 ELSE
  LET r4 == take(30, r3.rest)
  IN IF r4.kind # "Ok" THEN r4 ELSE
  LET r5 == le_u16(r4.rest)
  IN IF r5.kind # "Ok" THEN r5 ELSE
     [kind |-> "Ok", rest |-> r5.rest,
      value |-> [track_of_first_track_sector_list_sector |-> r1.value,
                 sector_of_first_track_sector_list_sector |-> r2.value,
                 file_type |-> FileTypeFromCode(And8(r3.value, 127)),
                 locked |-> And8(r3.value, 128) # 0,
                 file_name |-> r4.value,
                 file_length_in_sectors |-> r5.value]]

\* String::from_utf8 on bytes that are all <= 0x80 (what filename() feeds it:
\* every byte above 0x80 has been lowered by 0x80): such a sequence is valid
\* UTF-8 exactly when it holds no 0x80, a continuation byte without a lead
from_utf8(bytes) ==
  IF \E k \in 1..Len(bytes) : bytes[k] >= 128
  THEN [kind |-> "Err", err |-> "FromUtf8Error"]
  ELSE [kind |-> "Ok", value |-> bytes]

\* str::trim_end_matches(' ')
RECURSIVE trim_end_matches_space(_)
trim_end_matches_space(str) ==
  IF Len(str) > 0 /\ str[Len(str)] = 32
  THEN trim_end_matches_space(SubSeq(str, 1, Len(str) - 1))
  ELSE str

\* FileEntry::filename
filename(fe) ==
  LET filename_vector == [k \in 1..Len(fe.file_name) |->
                            IF fe.file_name[k] > 128 THEN fe.file_name[k] - 128
                            ELSE fe.file_name[k]]
      r == from_utf8(filename_vector)
  IN IF r.kind # "Ok" THEN r
     ELSE [kind |-> "Ok", value |-> trim_end_matches_space(r.value)]

(***************************************************************************)
(* Inputs of the file-entry round trip: names of up to MaxNameLen bytes,   *)
(* alone or followed by 28 more letters (so that lengths 30 and 31 occur). *)
(***************************************************************************)
MaxNameLen == 3

NameBytes == {0, 32, 65, 193}

RECURSIVE SeqsUpTo(_, _)
SeqsUpTo(S, n) ==
  IF n = 0 THEN { <<>> }
  ELSE LET shorter == SeqsUpTo(S, n - 1)
       IN shorter \cup { q \o <<x>> : q \in shorter, x \in S }

LongTail == [k \in 1..28 |-> 66]

FileNames ==
  SeqsUpTo(NameBytes, MaxNameLen)
    \cup { q \o LongTail : q \in SeqsUpTo(NameBytes, MaxNameLen) }

FileEntries ==
  [track_of_first_track_sector_list_sector : {18},
   sector_of_first_track_sector_list_sector : {15, 0},
   file_type : FileTypes,
   locked : BOOLEAN,
   file_name : FileNames,
   file_length_in_sectors : {2, 4660}]

InitFileEntry ==
  /\ file_entry \in FileEntries
  /\ overflow_checks \in BOOLEAN
  /\ entry_bytes = NoValue
  /\ parsed_entry = NoValue
  /\ parsed_filename = NoValue
  /\ ignore_checksums = "absent"
  /\ NibIdle /\ AddrIdle /\ DosIdle /\ FpIdle /\ SvIdle /\ D64Idle /\ StxIdle /\ NdIdle /\ CeIdle /\ TlIdle /\ TbIdle /\ P4Idle /\ TsIdle /\ PpIdle /\ StIdle /\ TabIdle /\ CrcIdle /\ NzIdle /\ BsIdle

AsVec ==
  /\ file_entry # NoValue
  /\ entry_bytes = NoValue
  /\ entry_bytes' = FileEntry_as_vec(file_entry, overflow_checks)
  /\ UNCHANGED <<file_entry, parsed_entry, parsed_filename, cfgVars, NotFe>>

ParseFileEntry ==
  /\ entry_bytes # NoValue
  /\ entry_bytes.kind = "Ok"
  /\ parsed_entry = NoValue
  /\ parsed_entry' = parse_file_entry(entry_bytes.value)
  /\ UNCHANGED <<file_entry, entry_bytes, parsed_filename, cfgVars, NotFe>>

Filename ==
  /\ parsed_entry # NoValue
  /\ parsed_entry.kind = "Ok"
  /\ parsed_filename = NoValue
  /\ parsed_filename' = filename(parsed_entry.value)
  /\ UNCHANGED <<file_entry, entry_bytes, parsed_entry, cfgVars, NotFe>>

NextFileEntry == AsVec \/ ParseFileEntry \/ Filename

SpecFileEntry == InitFileEntry /\ [][NextFileEntry]_vars

\* a name the round-trip law covers: 1 to 30 bytes, each in 0x00..0x7F, no
\* trailing space
RoundTripName(name) ==
  /\ Len(name) >= 1 /\ Len(name) <= 30
  /\ \A k \in 1..Len(name) : name[k] <= 127
  /\ name[Len(name)] # 32

\* C2: for every FileEntry whose name is 1 to 30 bytes, each in 0x00..0x7F,
\* with no trailing space, parse_file_entry on the bytes of as_vec(entry)
\* succeeds and yields an entry with the same TSL track, TSL sector, file
\* type, locked flag and length in sectors, whose filename() equals the
\* original name.
C2_FileEntryRoundTrip ==
  (file_entry # NoValue /\ RoundTripName(file_entry.file_name))
    => /\ entry_bytes # NoValue => entry_bytes.kind = "Ok"
       /\ parsed_entry # NoValue =>
            /\ parsed_entry.kind = "Ok"
            /\ parsed_entry.value.track_of_first_track_sector_list_sector
                 = file_entry.track_of_first_track_sector_list_sector
            /\ parsed_entry.value.sector_of_first_track_sector_list_sector
                 = file_entry.sector_of_first_track_sector_list_sector
            /\ parsed_entry.value.file_type = file_entry.file_type
            /\ parsed_entry.value.locked = file_entry.locked
            /\ parsed_entry.value.file_length_in_sectors
                 = file_entry.file_length_in_sectors
       /\ parsed_filename # NoValue =>
            /\ parsed_filename.kind = "Ok"
            /\ parsed_filename.value = file_entry.file_name

\* a name serialization takes: bytes of low ASCII
LowAscii(name) == \A k \in 1..Len(name) : name[k] <= 127

C15_WitnessLongest ==
  /\ entry_bytes # NoValue
  /\ entry_bytes.kind = "Ok"
  /\ Len(file_entry.file_name) = 30

(***************************************************************************)
(* Apple DOS 3.3 volumes (disk.rs, catalog.rs)                             *)
(*                                                                         *)
(* An image is [len, bytes]: len bytes long, bytes[o] the byte at offset o *)
(* for the offsets listed, zero everywhere else.                           *)
(***************************************************************************)
ByteAt(img, off) == IF off \in DOMAIN img.bytes THEN img.bytes[off] ELSE 0

\* let tracks_per_disk = 35
tracks_per_disk == 35

\* let catalog_sector_start = 17
catalog_sector_start == 17

\* apple_tracks_parser(4096, 35): the size of one raw track
TrackSize == 4096

\* count(take(256_usize), 16)(track): the size of a sector
SectorSize == 256

\* count(take(256_usize), 16)(track): the sectors of a track
SectorsPerTrack == 16

\* apple_140_k_dos_parser: count(take(track_size), number_of_tracks) on the
\* whole image; the tracks are the consecutive 4096-byte slices
apple_140_k_dos_parser(img, tpd) ==
  IF tpd = 35
  THEN IF img.len < TrackSize * 35
       THEN [kind |-> "Error", code |-> "Eof"]
       ELSE [kind |-> "Ok", track_size |-> TrackSize, tracks |-> 35]
  ELSE IF tpd = 40
  THEN IF img.len < 3584 * 40
       THEN [kind |-> "Error", code |-> "Eof"]
       ELSE [kind |-> "Ok", track_size |-> 3584, tracks |-> 40]
  ELSE [kind |-> "Error", code |-> "Fail"]

\* raw_tracks[t]: the bytes of one raw track
RawTrack(img, t) == [k \in 1..TrackSize |-> ByteAt(img, t * TrackSize + k - 1)]

\* tracks[t][s]: the bytes of one sector
Sector(img, t, s) ==
  [k \in 1..SectorSize |-> ByteAt(img, t * TrackSize + s * SectorSize + k - 1)]

\* le_i8 of nom::number::complete
le_i8(i) ==
  IF Len(i) < 1 THEN [kind |-> "Error", code |-> "Eof"]
  ELSE [kind |-> "Ok", rest |-> Drop(i, 1),
        value |-> IF i[1] >= 128 THEN i[1] - 256 ELSE i[1]]

\* parse_volume_table_of_contents
parse_volume_table_of_contents(i) ==
  LET reserved == le_u8(i)
  IN IF reserved.kind # "Ok" THEN reserved ELSE
  LET cat_track == le_u8(reserved.rest)
  IN IF cat_track.kind # "Ok" THEN cat_track ELSE
  LET cat_sector == le_u8(cat_track.rest)
  IN IF cat_sector.kind # "Ok" THEN cat_sector ELSE
  LET release == le_u8(cat_sector.rest)
  IN IF release.kind # "Ok" THEN release ELSE
  LET reserved2 == take(2, release.rest)
  IN IF reserved2.kind # "Ok" THEN reserved2 ELSE
  LET volume == le_u8(reserved2.rest)
  IN IF volume.kind # "Ok" THEN volume ELSE
  LET reserved3 == take(32, volume.rest)
  IN IF reserved3.kind # "Ok" THEN reserved3 ELSE
  LET max_pairs == le_u8(reserved3.rest)
  IN IF max_pairs.kind # "Ok" THEN max_pairs ELSE
  LET reserved4 == take(8, max_pairs.rest)
  IN IF reserved4.kind # "Ok" THEN reserved4 ELSE
  LET last_track == le_u8(reserved4.rest)
  IN IF last_track.kind # "Ok" THEN last_track ELSE
  LET direction == le_i8(last_track.rest)
  IN IF direction.kind # "Ok" THEN direction ELSE
  LET reserved5 == take(2, direction.rest)
  IN IF reserved5.kind # "Ok" THEN reserved5 ELSE
  LET tracks == le_u8(reserved5.rest)
  IN IF tracks.kind # "Ok" THEN tracks ELSE
  LET sectors == le_u8(tracks.rest)
  IN IF sectors.kind # "Ok" THEN sectors ELSE
  LET bytes_per_sector == le_u16(sectors.rest)
  IN IF bytes_per_sector.kind # "Ok" THEN bytes_per_sector ELSE
  LET bit_maps_to_read == Min({tracks.value, 50})
      bit_maps == take(4 * bit_maps_to_read, bytes_per_sector.rest)
  IN IF bit_maps.kind # "Ok" THEN bit_maps ELSE
     [kind |-> "Ok",
      rest_len |-> Len(bit_maps.rest),
      value |-> [track_number_of_first_catalog_sector |-> cat_track.value,
                 sector_number_of_first_catalog_sector |-> cat_sector.value,
                 release_number_of_dos |-> release.value,
                 diskette_volume_number |-> volume.value,
                 maximum_number_of_track_sector_pairs |-> max_pairs.value,
                 last_track_where_sectors_were_allocated |-> last_track.value,
                 direction_of_track_allocation |-> direction.value,
                 number_of_tracks_per_diskette |-> tracks.value,
                 number_of_sectors_per_track |-> sectors.value,
                 number_of_bytes_per_sector |-> bytes_per_sector.value,
                 bit_map_of_free_sectors |->
                   [t \in 1..bit_maps_to_read |->
                      SubSeq(bit_maps.value, 4 * t - 3, 4 * t)]]]

\* a check that skips the sectors-per-track test
VolumeTableOfContents_check_TracksOnly(v) ==
  ~ ((v.number_of_tracks_per_diskette # 35) /\ (v.number_of_tracks_per_diskette # 40))

\* impl SanityCheck for VolumeTableOfContents: check
VolumeTableOfContents_check(v) ==
  IF (v.number_of_tracks_per_diskette # 35) /\ (v.number_of_tracks_per_diskette # 40)
  THEN FALSE
  ELSE IF (v.number_of_sectors_per_track # 13) /\ (v.number_of_sectors_per_track # 16)
  THEN FALSE
  ELSE TRUE

\* valid_file
valid_file(track) == (track # 0) /\ (track # 255)

\* count(parse_file_entry, 7): the entries parsed so far in acc
RECURSIVE count_parse_file_entry(_, _, _)
count_parse_file_entry(i, n, acc) ==
  IF n = 0 THEN [kind |-> "Ok", rest |-> i, value |-> acc]
  ELSE LET r == parse_file_entry(i)
       IN IF r.kind # "Ok" THEN r
          ELSE count_parse_file_entry(r.rest, n - 1, Append(acc, r.value))

\* Iterator::filter on a Vec
RECURSIVE FilterValid(_)
FilterValid(entries) ==
  IF entries = <<>> THEN <<>>
  ELSE IF valid_file(Head(entries).track_of_first_track_sector_list_sector)
  THEN <<Head(entries)>> \o FilterValid(Tail(entries))
  ELSE FilterValid(Tail(entries))

\* parse_catalog; fe.filename().unwrap() panics on the first entry whose
\* name is not valid UTF-8
parse_catalog(i) ==
  LET reserved == le_u8(i)
  IN IF reserved.kind # "Ok" THEN reserved ELSE
  LET next_track == le_u8(reserved.rest)
  IN IF next_track.kind # "Ok" THEN next_track ELSE
  LET next_sector == le_u8(next_track.rest)
  IN IF next_sector.kind # "Ok" THEN next_sector ELSE
  LET reserved_2 == take(8, next_sector.rest)
  IN IF reserved_2.kind # "Ok" THEN reserved_2 ELSE
  LET entries == count_parse_file_entry(reserved_2.rest, 7, <<>>)
  IN IF entries.kind # "Ok" THEN entries ELSE
  LET file_entries_ == FilterValid(entries.value)
  IN IF \E k \in 1..Len(file_entries_) : filename(file_entries_[k]).kind # "Ok"
     THEN [kind |-> "panic",
           msg |-> <<"called Result::unwrap() on an Err value", "FromUtf8Error">>]
     ELSE [kind |-> "Ok", rest |-> entries.rest,
           value |-> [track_number_of_next_sector |-> next_track.value,
                      sector_number_of_next_sector |-> next_sector.value,
                      file_entries |-> file_entries_]]

\* Option<u8>
Some(x) == [some |-> TRUE, value |-> x]

None == [some |-> FALSE]

\* parse_track_sector_pair
parse_track_sector_pair(i) ==
  LET track_number == le_u8(i)
  IN IF track_number.kind # "Ok" THEN track_number ELSE
  LET sector_number == le_u8(track_number.rest)
  IN IF sector_number.kind # "Ok" THEN sector_number ELSE
     [kind |-> "Ok", rest |-> sector_number.rest,
      value |-> [track_number |-> track_number.value,
                 sector_number |-> sector_number.value]]

\* let max_tsps = 121
max_tsps == 121

\* the while loop of parse_track_sector_list, entered with the first pair
\* parsed and i the input after it.  Pair j is the j-th pair the loop
\* parses (cnt = j when it is tested); the loop pushes pair j and parses
\* pair j + 1 as long as pair j has a non-zero track and j <= max_tsps, so
\* it stops at the first pair that is missing, has track 0 or is number
\* max_tsps + 1.
TrackSectorPairLoop(i, first) ==
  LET Parsed(j) == j = 1 \/ Len(i) >= 2 * (j - 1)
      Pair(j) == IF j = 1 THEN first
                 ELSE [track_number |-> i[2 * (j - 1) - 1],
                       sector_number |-> i[2 * (j - 1)]]
      stop == Min({j \in 1..(max_tsps + 1) :
                     \/ ~ Parsed(j)
                     \/ ~ ((Pair(j).track_number # 0) /\ (j <= max_tsps))})
  IN IF ~ Parsed(stop)
     THEN [kind |-> "Error", code |-> "Eof"]
     ELSE [kind |-> "Ok", rest |-> Drop(i, 2 * (stop - 1)),
           value |-> [j \in 1..(stop - 1) |-> Pair(j)]]

\* parse_track_sector_list
parse_track_sector_list(i) ==
  LET reserved == le_u8(i)
  IN IF reserved.kind # "Ok" THEN reserved ELSE
  LET next_track == le_u8(reserved.rest)
  IN IF next_track.kind # "Ok" THEN next_track ELSE
  LET next_sector == le_u8(next_track.rest)
  IN IF next_sector.kind # "Ok" THEN next_sector ELSE
  LET reserved_2 == take(2, next_sector.rest)
  IN IF reserved_2.kind # "Ok" THEN reserved_2 ELSE
  LET sector_offset_in_file == take(2, reserved_2.rest)
  IN IF sector_offset_in_file.kind # "Ok" THEN sector_offset_in_file ELSE
  LET reserved_3 == take(5, sector_offset_in_file.rest)
  IN IF reserved_3.kind # "Ok" THEN reserved_3 ELSE
  LET first == parse_track_sector_pair(reserved_3.rest)
  IN IF first.kind # "Ok" THEN first ELSE
  LET loop == TrackSectorPairLoop(first.rest, first.value)
  IN IF loop.kind # "Ok" THEN loop ELSE
     [kind |-> "Ok", rest |-> loop.rest,
      value |-> [reserved |-> reserved.value,
                 track_number_of_next_sector |->
                   IF next_track.value # 0 THEN Some(next_track.value) ELSE None,
                 sector_number_of_next_sector |->
                   IF next_sector.value # 0 THEN Some(next_sector.value) ELSE None,
                 reserved_2 |-> reserved_2.value,
                 sector_offset_in_file |-> sector_offset_in_file.value,
                 reserved_3 |-> reserved_3.value,
                 track_sector_pairs |-> loop.value]]

\* tracks[t][s] exists: volume_parser pushes one Vec of 16 sectors for each
\* of the 35 raw tracks
InTracks(t, s) == t < tracks_per_disk /\ s < SectorsPerTrack

IndexOutOfBounds == [kind |-> "panic", msg |-> <<"index out of bounds">>]

\* flat_map(|tsl| tsl.track_sector_pairs.clone())
RECURSIVE AllPairs(_)
AllPairs(tsls) ==
  IF tsls = <<>> THEN <<>>
  ELSE Head(tsls).track_sector_pairs \o AllPairs(Tail(tsls))

\* flat_map(|tsp| tracks[tsp.track_number][tsp.sector_number]).copied()
SectorData(img, pairs) ==
  [j \in 1..(SectorSize * Len(pairs)) |->
     LET tsp == pairs[((j - 1) \div SectorSize) + 1]
     IN ByteAt(img, tsp.track_number * TrackSize
                    + tsp.sector_number * SectorSize + ((j - 1) % SectorSize))]

\* FileEntry::get_data; checks says whether the build traps u16 overflow
get_data(fe, img, tsls, checks) ==
  LET pairs == AllPairs(tsls)
  IN IF \E k \in 1..Len(pairs) :
          ~ InTracks(pairs[k].track_number, pairs[k].sector_number)
     THEN IndexOutOfBounds
     ELSE
  LET data == SectorData(img, pairs)
  IN IF fe.file_type = "Binary"
     THEN IF Len(data) >= 4
          THEN LET address == le_u16(data)
                   len == le_u16(address.rest)
               IN IF (Len(data) - 4) >= len.value
                  THEN IF len.value + 4 > 65535 /\ checks
                       THEN [kind |-> "panic", msg |-> <<"attempt to add with overflow">>]
                       ELSE IF (len.value + 4) % 65536 < 4
                       THEN [kind |-> "panic",
                             msg |-> <<"slice index starts at 4 but ends at",
                                       (len.value + 4) % 65536>>]
                       ELSE [kind |-> "Ok",
                             value |-> SubSeq(data, 5, (len.value + 4) % 65536)]
                  ELSE [kind |-> "Ok", value |-> data]
          ELSE [kind |-> "Ok", value |-> data]
     ELSE [kind |-> "Err",
           err |-> <<"Invalid", "Unsupported file type for export", fe.file_type>>]

\* HashMap::insert
Insert(map, key, value) ==
  [k \in DOMAIN map \cup {key} |-> IF k = key THEN value ELSE map[k]]

(***************************************************************************)
(* Images given to volume_parser.  Each is the 140K image of the           *)
(* repository's catalog tests (VTOC in track 17 sector 0, a catalog sector *)
(* at (17, 15) with the Binary file "BLAH", its track/sector list at       *)
(* (10, 13), its data at (17, 11)) with some of its fields changed:        *)
(*   len        the length of the image                                    *)
(*   tracks, sectors, cat_sector   VTOC bytes 0x34, 0x35 and 2             *)
(*   cat_track  VTOC byte 1; a catalog sector at (18, 15) holds the file   *)
(*              "C3"                                                       *)
(*   cat_next   the next pointer of the catalog sector at (17, 15)         *)
(*   cat2_next  the next pointer of a second catalog sector at (17, 14),   *)
(*              which holds the file "B2"                                  *)
(*   name_byte  the first byte of the name "BLAH"                          *)
(*   file_type  the type byte of "BLAH"                                    *)
(*   tsl        where the entry says the track/sector list is              *)
(*   tsl_next   the next pointer of the list at (10, 13)                   *)
(*   pairs      the pairs of the list at (10, 13)                          *)
(*   tsl2_next, pairs2   the same for a second list at (10, 12); a third   *)
(*              list at (10, 11) is full and ends the chain                *)
(*   length     the length word of the Binary header in (17, 11)           *)
(***************************************************************************)
Patch(off, seq) == [o \in off..(off + Len(seq) - 1) |-> seq[o - off + 1]]

SectorOffset(t, s) == t * TrackSize + s * SectorSize

\* the bytes of a list of <<track, sector>> pairs
Flatten(pairs) ==
  [k \in 1..(2 * Len(pairs)) |-> pairs[(k + 1) \div 2][((k - 1) % 2) + 1]]

Spaces(n) == [k \in 1..n |-> 160]

\* a track/sector list filled with pairs that name the sector (17, 11)
FullList == [k \in 1..max_tsps |-> <<17, 11>>]

DosImage(p) ==
  [len |-> p.len,
   bytes |->
     Patch(SectorOffset(17, 0), <<0, p.cat_track, p.cat_sector, 3, 0, 0, 254>>)
     @@ Patch(SectorOffset(17, 0) + 39, <<122>>)
     @@ Patch(SectorOffset(17, 0) + 48, <<18, 1>>)
     @@ Patch(SectorOffset(17, 0) + 52, <<p.tracks, p.sectors, 0, 1>>)
     @@ Patch(SectorOffset(17, 15), <<0, p.cat_next[1], p.cat_next[2]>>)
     @@ Patch(SectorOffset(17, 15) + 11,
              <<p.tsl[1], p.tsl[2], p.file_type, p.name_byte, 204, 193, 200>>
              \o Spaces(26) \o <<1, 0>>)
     @@ Patch(SectorOffset(17, 14), <<0, p.cat2_next[1], p.cat2_next[2]>>)
     @@ Patch(SectorOffset(17, 14) + 11,
              <<10, 13, 4, 194, 178>> \o Spaces(28) \o <<1, 0>>)
     @@ Patch(SectorOffset(18, 15) + 11,
              <<10, 13, 4, 195, 179>> \o Spaces(28) \o <<1, 0>>)
     @@ Patch(SectorOffset(10, 13), <<0, p.tsl_next[1], p.tsl_next[2]>>)
     @@ Patch(SectorOffset(10, 13) + 12, Flatten(p.pairs))
     @@ Patch(SectorOffset(10, 12), <<0, p.tsl2_next[1], p.tsl2_next[2]>>)
     @@ Patch(SectorOffset(10, 12) + 12, Flatten(p.pairs2))
     @@ Patch(SectorOffset(10, 11) + 12, Flatten(FullList))
     @@ Patch(SectorOffset(17, 11),
              <<0, 16, p.length % 256, p.length \div 256, 83, 84, 65, 82, 84>>)
     @@ Patch(SectorOffset(17, 11) + 253, <<69, 78, 68>>)
     @@ Patch(SectorOffset(17, 12), <<50, 78, 68>>)
     @@ Patch(SectorOffset(17, 12) + 255, <<90>>)]

\* the image of the repository's tests
BaseImage ==
  [len |-> TrackSize * 35, tracks |-> 35, sectors |-> 16,
   cat_track |-> 17, cat_sector |-> 15,
   cat_next |-> <<0, 0>>, cat2_next |-> <<0, 0>>, name_byte |-> 194,
   file_type |-> 4, tsl |-> <<10, 13>>, tsl_next |-> <<0, 0>>,
   pairs |-> << <<17, 11>> >>, tsl2_next |-> <<0, 0>>,
   pairs2 |-> << <<17, 12>> >>, length |-> 200]

\* images up to MaxShort bytes shorter than 143,360 bytes
MaxShort == 1

\* lists of up to MaxPairs pairs
MaxPairs == 2

DataSectors == << <<17, 11>>, <<17, 12>>, <<17, 11>>, <<17, 12>> >>

PairLists ==
  {SubSeq(DataSectors, 1, n) : n \in 0..Min({MaxPairs, Len(DataSectors)})}
  \cup { << <<17, 16>> >>, << <<35, 0>> >> }

VtocImages ==
  {[BaseImage EXCEPT !.len = TrackSize * 35 - short, !.tracks = t,
                     !.sectors = s, !.cat_sector = c] :
     short \in 0..MaxShort, t \in {35, 40, 34, 0}, s \in {16, 13, 15, 0},
     c \in {15, 14, 16, 0}}

\* VTOC bytes 1 and 2 naming other sectors of the disk as the first catalog
\* sector
FirstCatalogImages ==
  {[BaseImage EXCEPT !.cat_track = t, !.cat_sector = c] :
     t \in {17, 18, 10, 0, 34}, c \in {15, 14, 1}}

CatalogImages ==
  {[BaseImage EXCEPT !.cat_next = n, !.cat2_next = m, !.name_byte = b] :
     n \in {<<0, 0>>, <<17, 14>>, <<17, 15>>, <<35, 1>>, <<17, 16>>,
            <<17, 0>>, <<0, 5>>},
     m \in {<<0, 0>>, <<17, 15>>, <<17, 14>>},
     b \in {194, 128}}

ListImages ==
  {[BaseImage EXCEPT !.tsl = l, !.tsl_next = n, !.file_type = ft] :
     l \in {<<10, 13>>, <<35, 0>>, <<10, 16>>},
     n \in {<<0, 0>>, <<10, 12>>, <<10, 13>>, <<10, 0>>, <<40, 1>>, <<0, 12>>},
     ft \in {4, 0}}

DataImages ==
  {[BaseImage EXCEPT !.file_type = ft, !.tsl_next = n, !.pairs = ps,
                     !.length = len] :
     ft \in {4, 132, 0, 2},
     n \in {<<0, 0>>, <<10, 12>>},
     ps \in PairLists,
     len \in {0, 200, 252, 253, 508, 509, 65532, 65535}}

\* files of 363 sectors, more than a 16-bit length can describe
LongFileImages ==
  {[BaseImage EXCEPT !.tsl_next = <<10, 12>>, !.pairs = FullList,
                     !.tsl2_next = <<10, 11>>, !.pairs2 = FullList,
                     !.length = len] :
     len \in {300, 65531, 65532, 65535}}

DosImages ==
  {DosImage(p) : p \in VtocImages \cup FirstCatalogImages \cup CatalogImages
                        \cup ListImages
                        \cup DataImages \cup LongFileImages}

(***************************************************************************)
(* volume_parser as a state machine.  The two chain walks are loops whose  *)
(* iterations are separate steps; the visit counters are not program       *)
(* state, they count the sectors each walk has parsed.  The code puts no   *)
(* bound on either walk: WalkCap only stops the exploration of a walk      *)
(* that has already parsed more sectors than the disk holds.               *)
(***************************************************************************)
WalkCap == 561

Panic(m) == [kind |-> "panic", msg |-> m]

NomFail == [kind |-> "Error", code |-> "Fail"]

InitDos ==
  /\ disk_image \in DosImages
  /\ overflow_checks \in BOOLEAN
  /\ ignore_checksums = "absent"
  /\ dos_pc = "start"
  /\ vtoc = NoValue
  /\ catalog_sector = 0
  /\ catalog = NoValue
  /\ file_entries = <<>>
  /\ cat_visits = 0
  /\ file_index = 0
  /\ track_sector_lists = <<>>
  /\ tsl_next = NoValue
  /\ tsl_visits = 0
  /\ get_data_result = NoValue
  /\ files = <<>>
  /\ dos_result = NoValue
  /\ NibIdle /\ AddrIdle /\ FeIdle /\ FpIdle /\ SvIdle /\ D64Idle /\ StxIdle /\ NdIdle /\ CeIdle /\ TlIdle /\ TbIdle /\ P4Idle /\ TsIdle /\ PpIdle /\ StIdle /\ TabIdle /\ CrcIdle /\ NzIdle /\ BsIdle

DosStop(result) ==
  /\ dos_result' = result
  /\ dos_pc' = "done"

\* volume_parser up to the call of parse_catalogs
VolumeParserStart ==
  /\ dos_pc = "start"
  /\ LET raw_tracks == apple_140_k_dos_parser(disk_image, tracks_per_disk)
     IN IF raw_tracks.kind # "Ok"
        THEN DosStop(raw_tracks) /\ UNCHANGED <<vtoc, catalog_sector>>
        ELSE
     LET v == parse_volume_table_of_contents(RawTrack(disk_image, catalog_sector_start))
     IN IF v.kind # "Ok"
        THEN DosStop(v) /\ UNCHANGED <<vtoc, catalog_sector>>
        ELSE IF ~ VolumeTableOfContents_check(v.value)
        THEN DosStop(NomFail) /\ UNCHANGED <<vtoc, catalog_sector>>
        ELSE IF raw_tracks.track_size < SectorSize * SectorsPerTrack
        THEN DosStop([kind |-> "Error", code |-> "Eof"])
             /\ UNCHANGED <<vtoc, catalog_sector>>
        ELSE /\ vtoc' = v.value
             /\ catalog_sector' = RawTrack(disk_image, catalog_sector_start)[2 + 1]
             /\ dos_pc' = "parse_catalogs"
             /\ UNCHANGED dos_result
  /\ UNCHANGED <<disk_image, catalog, file_entries, cat_visits, file_index,
                 track_sector_lists, tsl_next, tsl_visits, get_data_result, files>>
  /\ UNCHANGED <<cfgVars, NotDos>>

\* one parse_catalog call of parse_catalogs on tracks[t][s], and the push of
\* its entries
ParseCatalogAt(t, s) ==
  IF ~ InTracks(t, s)
  THEN DosStop(IndexOutOfBounds) /\ UNCHANGED <<catalog, file_entries, cat_visits>>
  ELSE LET c == parse_catalog(Sector(disk_image, t, s))
       IN IF c.kind = "panic"
          THEN DosStop(c) /\ UNCHANGED <<catalog, file_entries, cat_visits>>
          ELSE IF c.kind # "Ok"
          THEN DosStop(NomFail) /\ UNCHANGED <<catalog, file_entries, cat_visits>>
          ELSE /\ catalog' = c.value
               /\ file_entries' = file_entries \o c.value.file_entries
               /\ cat_visits' = cat_visits + 1
               /\ dos_pc' = "catalog_loop"
               /\ UNCHANGED dos_result

\* parse_catalogs up to its while loop
ParseCatalogsFirst ==
  /\ dos_pc = "parse_catalogs"
  /\ ParseCatalogAt(catalog_sector_start, catalog_sector)
  /\ UNCHANGED <<disk_image, vtoc, catalog_sector, file_index, track_sector_lists,
                 tsl_next, tsl_visits, get_data_result, files>>
  /\ UNCHANGED <<cfgVars, NotDos>>

\* one iteration of the while loop of parse_catalogs
ParseCatalogsNext ==
  /\ dos_pc = "catalog_loop"
  /\ (catalog.track_number_of_next_sector # 0)
       /\ (catalog.sector_number_of_next_sector # 0)
  /\ cat_visits < WalkCap
  /\ ParseCatalogAt(catalog.track_number_of_next_sector,
                    catalog.sector_number_of_next_sector)
  /\ UNCHANGED <<disk_image, vtoc, catalog_sector, file_index, track_sector_lists,
                 tsl_next, tsl_visits, get_data_result, files>>
  /\ UNCHANGED <<cfgVars, NotDos>>

\* the exit of the while loop of parse_catalogs; volume_parser goes on to
\* build_files
ParseCatalogsReturn ==
  /\ dos_pc = "catalog_loop"
  /\ ~ ((catalog.track_number_of_next_sector # 0)
          /\ (catalog.sector_number_of_next_sector # 0))
  /\ dos_pc' = "build_files"
  /\ file_index' = 1
  /\ UNCHANGED <<disk_image, vtoc, catalog_sector, catalog, file_entries,
                 cat_visits, track_sector_lists, tsl_next, tsl_visits,
                 get_data_result, files, dos_result>>
  /\ UNCHANGED <<cfgVars, NotDos>>

\* one parse_track_sector_list(tracks[t][s]).unwrap() of build_file
ParseTrackSectorListAt(t, s, lists) ==
  IF ~ InTracks(t, s)
  THEN DosStop(IndexOutOfBounds)
       /\ UNCHANGED <<track_sector_lists, tsl_next, tsl_visits>>
  ELSE LET l == parse_track_sector_list(Sector(disk_image, t, s))
       IN IF l.kind # "Ok"
          THEN DosStop(Panic(<<"called Result::unwrap() on an Err value", l>>))
               /\ UNCHANGED <<track_sector_lists, tsl_next, tsl_visits>>
          ELSE /\ track_sector_lists' = Append(lists, l.value)
               /\ tsl_next' = [track |-> l.value.track_number_of_next_sector,
                               sector |-> l.value.sector_number_of_next_sector]
               /\ tsl_visits' = IF lists = <<>> THEN 1 ELSE tsl_visits + 1
               /\ dos_pc' = "build_file_loop"
               /\ UNCHANGED dos_result

\* build_files takes the next entry; build_file up to its while loop
BuildFileFirst ==
  /\ dos_pc = "build_files"
  /\ file_index <= Len(file_entries)
  /\ LET fe == file_entries[file_index]
     IN ParseTrackSectorListAt(fe.track_of_first_track_sector_list_sector,
                               fe.sector_of_first_track_sector_list_sector, <<>>)
  /\ get_data_result' = IF dos_pc' = "build_file_loop" THEN NoValue
                        ELSE get_data_result
  /\ UNCHANGED <<disk_image, vtoc, catalog_sector, catalog, file_entries,
                 cat_visits, file_index, files>>
  /\ UNCHANGED <<cfgVars, NotDos>>

\* one iteration of the while loop of build_file
BuildFileNext ==
  /\ dos_pc = "build_file_loop"
  /\ tsl_next.track.some
  /\ tsl_visits < WalkCap
  /\ IF ~ tsl_next.sector.some
     THEN DosStop(Panic(<<"called Option::unwrap() on a None value">>))
          /\ UNCHANGED <<track_sector_lists, tsl_next, tsl_visits>>
     ELSE ParseTrackSectorListAt(tsl_next.track.value, tsl_next.sector.value,
                                 track_sector_lists)
  /\ UNCHANGED <<disk_image, vtoc, catalog_sector, catalog, file_entries,
                 cat_visits, file_index, get_data_result, files>>
  /\ UNCHANGED <<cfgVars, NotDos>>

\* the exit of the while loop of build_file; build_files calls get_data and
\* inserts the File
BuildFileReturn ==
  /\ dos_pc = "build_file_loop"
  /\ ~ tsl_next.track.some
  /\ LET fe == file_entries[file_index]
         res == get_data(fe, disk_image, track_sector_lists, overflow_checks)
     IN IF res.kind = "panic"
        THEN /\ get_data_result' = res
             /\ DosStop(res)
             /\ UNCHANGED <<files, file_index>>
        ELSE /\ get_data_result' = res
             /\ files' = Insert(files, filename(fe).value,
                                [track_sector_lists |-> track_sector_lists,
                                 data |-> IF res.kind = "Ok" THEN res.value ELSE <<>>])
             /\ file_index' = file_index + 1
             /\ dos_pc' = "build_files"
             /\ UNCHANGED dos_result
  /\ UNCHANGED <<disk_image, vtoc, catalog_sector, catalog, file_entries,
                 cat_visits, track_sector_lists, tsl_next, tsl_visits>>
  /\ UNCHANGED <<cfgVars, NotDos>>

\* build_files has taken every entry; volume_parser returns the AppleDisk
VolumeParserReturn ==
  /\ dos_pc = "build_files"
  /\ file_index > Len(file_entries)
  /\ DosStop([kind |-> "Ok",
              value |-> [encoding |-> "Plain", format |-> "DOS33",
                         volume_table_of_contents |-> vtoc]])
  /\ UNCHANGED <<disk_image, vtoc, catalog_sector, catalog, file_entries,
                 cat_visits, file_index, track_sector_lists, tsl_next,
                 tsl_visits, get_data_result, files>>
  /\ UNCHANGED <<cfgVars, NotDos>>

NextDos ==
  \/ VolumeParserStart
  \/ ParseCatalogsFirst
  \/ ParseCatalogsNext
  \/ ParseCatalogsReturn
  \/ BuildFileFirst
  \/ BuildFileNext
  \/ BuildFileReturn
  \/ VolumeParserReturn

SpecDos == InitDos /\ [][NextDos]_vars

\* the sectors of a 140K disk
SectorsOnDisk == tracks_per_disk * SectorsPerTrack

\* C4: decoding an Apple DOS 3.3 image terminates; the catalog walk of
\* parse_catalogs and the track/sector-list walk of build_file each visit a
\* bounded number of sectors (no more than the disk holds), also when a next
\* pointer leads back to a sector already visited.
C4_BoundedWalks ==
  /\ cat_visits <= SectorsOnDisk
  /\ tsl_visits <= SectorsOnDisk

\* the catalog chain (17,15) -> (17,14) -> end is walked in two visits
C4_ChainWalked ==
  /\ dos_result.kind = "Ok"
  /\ cat_visits = 2
  /\ Len(file_entries) = 2

VtocOffset == SectorOffset(catalog_sector_start, 0)

VtocTracksByte == ByteAt(disk_image, VtocOffset + 52)

VtocSectorsByte == ByteAt(disk_image, VtocOffset + 53)

\* C5: every AppleDisk returned by volume_parser has a VTOC with
\* number_of_tracks_per_diskette in {35, 40} and number_of_sectors_per_track
\* in {13, 16}; an image whose VTOC bytes violate either condition yields a
\* decode error and no disk.
C5_VtocSanity ==
  /\ dos_result.kind = "Ok" =>
       /\ dos_result.value.volume_table_of_contents.number_of_tracks_per_diskette
            \in {35, 40}
       /\ dos_result.value.volume_table_of_contents.number_of_sectors_per_track
            \in {13, 16}
       /\ VtocTracksByte \in {35, 40}
       /\ VtocSectorsByte \in {13, 16}
  /\ (dos_pc # "start" /\ (VtocTracksByte \notin {35, 40}
                            \/ VtocSectorsByte \notin {13, 16})) =>
       /\ dos_pc = "done"
       /\ dos_result.kind = "Error"

\* a disk is returned for a VTOC of 40 tracks and 13 sectors
C5_Witness ==
  /\ dos_result.kind = "Ok"
  /\ VtocTracksByte = 40
  /\ VtocSectorsByte = 13

\* a full-length image with 15 sectors per track is refused
C5_WitnessRefused ==
  /\ dos_result.kind = "Error"
  /\ disk_image.len = TrackSize * 35
  /\ VtocTracksByte = 35
  /\ VtocSectorsByte = 15

\* get_data has just been called for this entry with track_sector_lists
GetDataCalled == get_data_result # NoValue

GetDataEntry ==
  file_entries[IF get_data_result.kind = "panic" THEN file_index
               ELSE file_index - 1]

GetDataPairs == AllPairs(track_sector_lists)

\* the concatenation of the sectors named by the pairs, in list order
Concatenation == SectorData(disk_image, GetDataPairs)

\* C6: for every Binary file entry whose referenced sectors concatenate to
\* at least 4 bytes, get_data returns exactly `length` bytes, length being
\* the little-endian u16 at offsets 2..3 of the concatenation, and these are
\* the bytes at offsets 4..4+length of the concatenation.
C6_BinaryPayload ==
  (/\ GetDataCalled
   /\ GetDataEntry.file_type = "Binary"
   /\ \A k \in 1..Len(GetDataPairs) :
        InTracks(GetDataPairs[k].track_number, GetDataPairs[k].sector_number)
   /\ Len(Concatenation) >= 4)
  => LET length == Concatenation[3] + 256 * Concatenation[4]
     IN /\ get_data_result.kind = "Ok"
        /\ Len(get_data_result.value) = length
        /\ \A k \in 1..length :
             /\ 4 + k <= Len(Concatenation)
             /\ get_data_result.value[k] = Concatenation[4 + k]

VtocFirstCatalogTrack == ByteAt(disk_image, VtocOffset + 1)

VtocFirstCatalogSector == ByteAt(disk_image, VtocOffset + 2)

\* C21: the catalog walk starts at the catalog sector the VTOC names: once
\* parse_catalogs has parsed its first sector, the catalog it holds is the
\* one of the sector at track = VTOC byte 1, sector = VTOC byte 2, whenever
\* the two bytes lie inside the disk geometry.
C21_WalkStartsAtVtocCatalog ==
  ( /\ dos_pc \in {"catalog_loop", "build_files"}
    /\ cat_visits = 1
    /\ VtocFirstCatalogTrack < tracks_per_disk
    /\ VtocFirstCatalogSector < SectorsPerTrack ) =>
    catalog = parse_catalog(Sector(disk_image, VtocFirstCatalogTrack,
                                   VtocFirstCatalogSector)).value

(***************************************************************************)
(* Image guessing and dispatch (image.rs, apple/disk.rs,                   *)
(* commodore/disk.rs)                                                      *)
(*                                                                         *)
(* A file name is the sequence of its pieces between the dots.  The        *)
(* decoders themselves are not run here: decoder_outcome says how the      *)
(* decoder that file_parser selects ends on the data (volume_parser is     *)
(* followed step by step in SpecDos).                                      *)
(***************************************************************************)
\* str::to_lowercase on the extensions used here
to_lowercase(str) ==
  CASE str = "DSK" -> "dsk"
    [] str = "DO" -> "do"
    [] str = "NIB" -> "nib"
    [] str = "Dsk" -> "dsk"
    [] str = "nIb" -> "nib"
    [] str = "D64" -> "d64"
    [] OTHER -> str

\* filename_extension[filename_extension.len() - 1].to_lowercase()
Extension(name) == to_lowercase(name[Len(name)])

MetadataPanic == [kind |-> "panic", msg |-> <<"Couldn't get file metadata">>]

\* CommodoreDiskGuess::guess
CommodoreDiskGuess_guess(name, metadata) ==
  IF metadata.kind # "Ok" THEN MetadataPanic
  ELSE IF Extension(name) = "d64"
  THEN [kind |-> "Ok",
        value |-> Some([variant |-> "Commodore", format |-> <<"D64", metadata.len>>])]
  ELSE [kind |-> "Ok", value |-> None]

\* nom::bytes::streaming::take_until(&[0xD5, 0xAA]) on the image from offset
\* from on: the offset of the first D5 AA, or Incomplete
take_until_D5AA(data, from) ==
  LET found == { k \in DOMAIN data.bytes :
                   /\ k >= from /\ k + 1 < data.len
                   /\ ByteAt(data, k) = 213 /\ ByteAt(data, k + 1) = 170 }
  IN IF found = {} THEN [kind |-> "Incomplete"]
     ELSE [kind |-> "Ok", at |-> Min(found)]

\* nibble::parse_prologue, from being the offset the search is at (new_i):
\* the value is the offset of the D5 AA that one_of([0x96, 0xB5]) follows
RECURSIVE parse_prologue(_, _)
parse_prologue(data, from) ==
  LET r == take_until_D5AA(data, from)
  IN IF r.kind # "Ok" THEN r
     ELSE IF r.at + 2 < data.len /\ ByteAt(data, r.at + 2) \in {150, 181}
     THEN [kind |-> "Ok", rest |-> r.at + 3, value |-> r.at]
     ELSE parse_prologue(data, r.at + 2)

\* a recognize_prologue that answers with the second byte of the prologue
recognize_prologue_SecondByte(data) ==
  LET result == parse_prologue(data, 0)
  IN IF result.kind = "Ok" THEN Some(ByteAt(data, result.value + 1))
     ELSE None

\* nibble::recognize_prologue: Some(r.1[2]), or None
recognize_prologue(data) ==
  LET result == parse_prologue(data, 0)
  IN IF result.kind = "Ok" THEN Some(ByteAt(data, result.value + 2))
     ELSE None

\* apple::disk::format_from_filename_and_data
apple_format_from_filename_and_data(name, data, metadata) ==
  IF metadata.kind # "Ok" THEN MetadataPanic
  ELSE LET ext == Extension(name)
       IN IF ext = "do" \/ ext = "dsk"
          THEN [kind |-> "Ok",
                value |-> Some([variant |-> "Apple", encoding |-> "Plain",
                                format |-> <<"DOS33", metadata.len>>])]
          ELSE IF ext = "nib"
          THEN [kind |-> "Ok",
                value |-> Some([variant |-> "Apple", encoding |-> "Nibble",
                                format |->
                                  LET prologue_byte_result ==
                                        recognize_prologue(data)
                                  IN IF prologue_byte_result = Some(181)
                                     THEN <<"DOS32", metadata.len>>
                                     ELSE IF prologue_byte_result = Some(150)
                                     THEN <<"DOS33", metadata.len>>
                                     ELSE <<"Unknown", metadata.len>>])]
          ELSE [kind |-> "Ok", value |-> None]

\* the boot-sector bytes format_from_data looks for
MagicHeader == <<1, 165, 39, 201, 9, 208, 24, 165, 43>>

\* apple::disk::format_from_data
format_from_data(data) ==
  IF data.len < 9 THEN [kind |-> "Err", err |-> "Eof"]
  ELSE IF [k \in 1..9 |-> ByteAt(data, k - 1)] # MagicHeader
  THEN [kind |-> "Ok", value |-> None]
  ELSE IF data.len < 69632 + 4 THEN [kind |-> "Err", err |-> "Eof"]
  ELSE IF /\ ByteAt(data, 69632 + 1) = 17
          /\ ByteAt(data, 69632 + 2) = 15
          /\ ByteAt(data, 69632 + 3) = 3
  THEN [kind |-> "Ok",
        value |-> Some([variant |-> "Apple", encoding |-> "Plain",
                        format |-> <<"DOS33", data.len>>])]
  ELSE [kind |-> "Ok", value |-> None]

\* AppleDiskGuess::guess: by extension, otherwise by magic number,
\* otherwise None
AppleDiskGuess_guess(name, data, metadata) ==
  LET by_name == apple_format_from_filename_and_data(name, data, metadata)
  IN IF by_name.kind # "Ok" THEN by_name
     ELSE IF by_name.value.some THEN by_name
     ELSE LET by_magic == format_from_data(data)
          IN IF by_magic.kind = "Ok" THEN by_magic
             ELSE [kind |-> "Ok", value |-> None]

\* image::format_from_filename_and_data; feature is cfg(feature = "commodore")
format_from_filename_and_data(feature, name, data, metadata) ==
  LET commodore_res == CommodoreDiskGuess_guess(name, metadata)
  IN IF feature /\ commodore_res.kind # "Ok" THEN commodore_res
     ELSE IF feature /\ commodore_res.value.some THEN commodore_res
     ELSE AppleDiskGuess_guess(name, data, metadata)

\* apple_disk_parser, outcome being how volume_parser or parse_nib_disk ends
apple_disk_parser(guess, data, outcome) ==
  IF guess.encoding = "Plain"
  THEN LET filesize == IF guess.format[1] = "DOS33" THEN guess.format[2] ELSE 0
       IN IF filesize = 143360
          THEN IF apple_140_k_dos_parser(data, tracks_per_disk).kind # "Ok"
               THEN "Error"
               ELSE outcome
          ELSE "Error"
  ELSE outcome

\* AppleDiskGuess::parse
AppleDiskGuess_parse(guess, data, outcome) ==
  LET result == apple_disk_parser(guess, data, outcome)
  IN IF result = "panic" THEN [kind |-> "panic", msg |-> <<"decoder">>]
     ELSE IF result = "Ok"
     THEN [kind |-> "Ok", value |-> [variant |-> "Apple", encoding |-> guess.encoding,
                                     format |-> guess.format]]
     ELSE [kind |-> "Err", err |-> <<"Invalid", "Parsing Error">>]

\* CommodoreDiskGuess::parse, outcome being how d64_disk_parser ends
CommodoreDiskGuess_parse(guess, outcome) ==
  IF outcome = "panic" THEN [kind |-> "panic", msg |-> <<"decoder">>]
  ELSE IF outcome = "Ok" THEN [kind |-> "Ok", value |-> [variant |-> "D64"]]
  ELSE [kind |-> "Err", err |-> <<"Invalid", "Parsing Error">>]

\* the match of file_parser on guess_image_type
file_parser_match(feature, guess, data, outcome) ==
  IF guess.some
  THEN IF guess.value.variant = "Apple"
       THEN AppleDiskGuess_parse(guess.value, data, outcome)
       ELSE IF feature /\ guess.value.variant = "Commodore"
       THEN CommodoreDiskGuess_parse(guess.value, outcome)
       ELSE [kind |-> "panic", msg |-> <<"Exiting">>]
  ELSE [kind |-> "panic", msg |-> <<"not yet implemented">>]

FileNames_ ==
  { <<"game", "dsk">>, <<"GAME", "DSK">>, <<"game", "do">>, <<"game", "nib">>,
    <<"game", "d64">>, <<"game", "bin">>, <<"game">>, <<"game", "dsk", "bak">>,
    <<"game", "Dsk">>, <<"game", "nIb">>, <<"game", "dsk", "nib">>, <<"nib">>,
    <<"game", "">> }

\* fs::metadata: the file is missing, or has one of these sizes
Metadata ==
  { [kind |-> "Err"] } \cup { [kind |-> "Ok", len |-> n] : n \in {143360, 174848, 100} }

\* what the data holds from offset 16 on: no D5 AA, an address prologue of
\* either kind, a data prologue and then an address prologue, two D5 AA in
\* a row, or a D5 AA that the data ends with
PrologueBytes ==
  { <<>>, <<213, 170, 150>>, <<213, 170, 181>>, <<213, 213, 170, 150, 213, 170, 181>>,
    <<213, 170, 173, 255, 213, 170, 181>>, <<213, 170, 213, 170, 150>>,
    <<213, 170, 213, 150>>, <<213, 170>> }

\* data with or without the boot-sector magic and the VTOC header bytes: 8
\* bytes, or the bytes up to the prologue bytes, or a whole disk
FileData ==
  { [len |-> IF n = 0 THEN 16 + Len(p) ELSE n,
     bytes |-> Patch(0, IF magic THEN MagicHeader ELSE <<1, 165>>)
               @@ (IF n = 8 THEN <<>> ELSE Patch(16, p))
               @@ (IF n = 143360 THEN Patch(69632, <<0, 17, 15, release>>)
                   ELSE <<>>)] :
      n \in {8, 0, 143360}, magic \in BOOLEAN, release \in {3, 2},
      p \in PrologueBytes }

DecoderOutcomes == {"Ok", "Error", "panic"}

InitFileParser ==
  /\ fp_filename \in FileNames_
  /\ fp_metadata \in Metadata
  /\ fp_data \in FileData
  /\ commodore \in BOOLEAN
  /\ decoder_outcome \in DecoderOutcomes
  /\ fp_guess = NoValue
  /\ fp_pc = "start"
  /\ fp_result = NoValue
  /\ ignore_checksums = "absent"
  /\ overflow_checks = "any"
  /\ NibIdle /\ AddrIdle /\ FeIdle /\ DosIdle /\ SvIdle /\ D64Idle /\ StxIdle /\ NdIdle /\ CeIdle /\ TlIdle /\ TbIdle /\ P4Idle /\ TsIdle /\ PpIdle /\ StIdle /\ TabIdle /\ CrcIdle /\ NzIdle /\ BsIdle

\* <Vec<u8> as DiskImageParser>::parse_disk_image enters file_parser, which
\* calls format_from_filename_and_data
GuessImageType ==
  /\ fp_pc = "start"
  /\ LET guess == format_from_filename_and_data(commodore, fp_filename, fp_data,
                                                fp_metadata)
     IN IF guess.kind # "Ok"
        THEN /\ fp_result' = guess
             /\ fp_pc' = "done"
             /\ UNCHANGED fp_guess
        ELSE /\ fp_guess' = guess.value
             /\ fp_pc' = "match"
             /\ UNCHANGED fp_result
  /\ UNCHANGED <<fp_filename, fp_metadata, fp_data, commodore, decoder_outcome>>
  /\ UNCHANGED <<cfgVars, NotFp>>

\* file_parser matches on the guess and returns what the decoder gives
ParseGuess ==
  /\ fp_pc = "match"
  /\ fp_result' = file_parser_match(commodore, fp_guess, fp_data, decoder_outcome)
  /\ fp_pc' = "done"
  /\ UNCHANGED <<fp_filename, fp_metadata, fp_data, commodore, decoder_outcome,
                 fp_guess>>
  /\ UNCHANGED <<cfgVars, NotFp>>

NextFileParser == GuessImageType \/ ParseGuess

SpecFileParser == InitFileParser /\ [][NextFileParser]_vars

\* C7: for every file name and content, parse_disk_image on a Vec<u8>
\* (file_parser) returns a Result, Ok with a DiskImage or Err with an Error;
\* when no image type is guessed, or the guess has no decoder, the outcome is
\* an Err value and not an abort of the caller.
C7_ResultNotAbort ==
  fp_pc = "done" =>
    /\ fp_result.kind \in {"Ok", "Err"}
    /\ (fp_guess # NoValue /\ ~ fp_guess.some) => fp_result.kind = "Err"

\* a guess is made and its decoder's result is handed back as a Result
C7_Decoded ==
  /\ fp_pc = "done"
  /\ fp_guess = Some([variant |-> "Apple", encoding |-> "Plain",
                      format |-> <<"DOS33", 143360>>])
  /\ fp_result.kind = "Ok"

\* the third byte of the first D5 AA 96 or D5 AA B5 that lies in the data
FirstPrologueThirdByte(data) ==
  LET found == { k \in DOMAIN data.bytes :
                   /\ k + 2 < data.len
                   /\ ByteAt(data, k) = 213 /\ ByteAt(data, k + 1) = 170
                   /\ ByteAt(data, k + 2) \in {150, 181} }
  IN IF found = {} THEN None ELSE Some(ByteAt(data, Min(found) + 2))

MaxSectors == 2

\* Write::write_all on a file that has accepted `done` writes
write_all(buf, done, fail_after) ==
  IF Len(buf) = 0 THEN "Ok"
  ELSE IF done < fail_after THEN "Ok"
  ELSE "Err"

\* <AppleDOSDisk as DiskImageSaver>::save_disk_image
AppleDOSDisk_save_disk_image(disk, selected_filename, create_ok, fail_after) ==
  IF ~ selected_filename.some
  THEN [result |-> [kind |-> "Err",
                    err |-> <<"Message",
                              "Filename must be specified for saving Apple DOS 3.3 images">>],
        file |-> NoValue, log |-> <<>>]
  ELSE IF ~ create_ok
  THEN [result |-> [kind |-> "Ok"], file |-> NoValue, log |-> << <<"create", "Err">> >>]
  ELSE IF selected_filename.value \notin DOMAIN disk.files
  THEN [result |-> Panic(<<"called Option::unwrap() on a None value">>),
        file |-> [content |-> <<>>], log |-> << <<"create", "Ok">> >>]
  ELSE LET data == disk.files[selected_filename.value].data
       IN IF write_all(data, 0, fail_after) = "Ok"
          THEN [result |-> [kind |-> "Ok"], file |-> [content |-> data],
                log |-> << <<"create", "Ok">>, <<"write_all", "Ok">> >>]
          ELSE [result |-> [kind |-> "Err", err |-> <<"IO">>],
                file |-> [content |-> <<>>],
                log |-> << <<"create", "Ok">>, <<"write_all", "Err">> >>]

\* <NibbleDisk as DiskImageSaver>::save_disk_image; sectors are the sectors
\* in the order the three nested loops reach them
NibbleDisk_save_disk_image(disk, create_ok, fail_after) ==
  IF ~ create_ok
  THEN [result |-> [kind |-> "Ok"], file |-> NoValue, log |-> << <<"create", "Err">> >>]
  ELSE LET n == Len(disk.sectors)
           written == Min({n, fail_after})
           content == Flatten([k \in 1..written |-> disk.sectors[k]])
       IN IF written = n
          THEN [result |-> [kind |-> "Ok"], file |-> [content |-> content],
                log |-> << <<"create", "Ok">> >>
                        \o [k \in 1..n |-> <<"write_all", "Ok">>]]
          ELSE [result |-> Panic(<<"called Result::unwrap() on an Err value">>),
                file |-> [content |-> content],
                log |-> << <<"create", "Ok">> >>
                        \o [k \in 1..written |-> <<"write_all", "Ok">>]
                        \o << <<"write_all", "Err">> >>]

SavedNames == {"BLAH", "B2"}

SavedData == { <<>>, <<83, 84>> }

DosDisks ==
  UNION { { [kind |-> "DOS",
             files |-> [n \in names |-> [data |-> d[n]]]] :
              d \in [names -> SavedData] } : names \in SUBSET SavedNames }

NibbleDisks ==
  { [kind |-> "Nibble", sectors |-> [k \in 1..n |-> <<k, 150>>]] : n \in 0..MaxSectors }

SelectedNames == {None, Some("BLAH"), Some("B2"), Some("NOPE")}

InitSave ==
  /\ sv_disk \in DosDisks \cup NibbleDisks
  /\ sv_selected \in SelectedNames
  /\ sv_create_ok \in BOOLEAN
  /\ sv_fail_after \in 0..MaxSectors
  /\ sv_file = NoValue
  /\ sv_log = <<>>
  /\ sv_pc = "start"
  /\ sv_result = NoValue
  /\ ignore_checksums = "absent"
  /\ overflow_checks = "any"
  /\ NibIdle /\ AddrIdle /\ FeIdle /\ DosIdle /\ FpIdle /\ D64Idle /\ StxIdle /\ NdIdle /\ CeIdle /\ TlIdle /\ TbIdle /\ P4Idle /\ TsIdle /\ PpIdle /\ StIdle /\ TabIdle /\ CrcIdle /\ NzIdle /\ BsIdle

SaveAppleDOSDisk ==
  /\ sv_pc = "start"
  /\ sv_disk.kind = "DOS"
  /\ LET r == AppleDOSDisk_save_disk_image(sv_disk, sv_selected, sv_create_ok,
                                           sv_fail_after)
     IN /\ sv_result' = r.result
        /\ sv_file' = r.file
        /\ sv_log' = r.log
  /\ sv_pc' = "done"
  /\ UNCHANGED <<sv_disk, sv_selected, sv_create_ok, sv_fail_after>>
  /\ UNCHANGED <<cfgVars, NotSv>>

SaveNibbleDisk ==
  /\ sv_pc = "start"
  /\ sv_disk.kind = "Nibble"
  /\ LET r == NibbleDisk_save_disk_image(sv_disk, sv_create_ok, sv_fail_after)
     IN /\ sv_result' = r.result
        /\ sv_file' = r.file
        /\ sv_log' = r.log
  /\ sv_pc' = "done"
  /\ UNCHANGED <<sv_disk, sv_selected, sv_create_ok, sv_fail_after>>
  /\ UNCHANGED <<cfgVars, NotSv>>

NextSave == SaveAppleDOSDisk \/ SaveNibbleDisk

SpecSave == InitSave /\ [][NextSave]_vars

\* C8: AppleDOSDisk::save_disk_image called with Some(name), name not a key
\* of the disk's files, returns a NotFound error and does not abort.
C8_MissingNameNotFound ==
  (/\ sv_pc = "done"
   /\ sv_disk.kind = "DOS"
   /\ sv_selected.some
   /\ sv_selected.value \notin DOMAIN sv_disk.files)
  => /\ sv_result.kind = "Err"
     /\ sv_result.err[1] = "NotFound"

FsCallFailed == \E k \in 1..Len(sv_log) : sv_log[k][2] = "Err"

\* C9: save_disk_image of an Apple DOS disk and of a nibble disk returns an
\* I/O error whenever the output file cannot be created or a write to it
\* fails; it never returns Ok(()) when nothing could be written.
C9_SaveReportsIo ==
  sv_pc = "done" =>
    /\ FsCallFailed => (sv_result.kind = "Err" /\ sv_result.err[1] = "IO")
    /\ sv_result.kind = "Ok" => sv_file # NoValue

\* a failed write of an Apple DOS file does come back as an I/O error
C9_WriteErrorReported ==
  /\ sv_pc = "done"
  /\ sv_disk.kind = "DOS"
  /\ sv_log = << <<"create", "Ok">>, <<"write_all", "Err">> >>
  /\ sv_result = [kind |-> "Err", err |-> <<"IO">>]

(***************************************************************************)
(* Commodore D64 block availability map (commodore/d64.rs)                 *)
(*                                                                         *)
(* The parsers work on the image [len, bytes] and a position in it, the    *)
(* start of the input slice that is left.                                  *)
(***************************************************************************)
Bytes(img, pos, n) == [k \in 1..n |-> ByteAt(img, pos + k - 1)]

EofAt(pos) == [kind |-> "Error", code |-> "Eof", pos |-> pos]

\* nom::bytes::complete::take at a position
take_at(img, pos, n) ==
  IF img.len - pos < n THEN EofAt(pos)
  ELSE [kind |-> "Ok", pos |-> pos + n, value |-> Bytes(img, pos, n)]

\* take whose bytes the caller drops: `let (i, _) = take(n)(i)?`
skip_at(img, pos, n) ==
  IF img.len - pos < n THEN EofAt(pos)
  ELSE [kind |-> "Ok", pos |-> pos + n]

\* nom::number::complete::le_u8 at a position
le_u8_at(img, pos) ==
  IF img.len - pos < 1 THEN EofAt(pos)
  ELSE [kind |-> "Ok", pos |-> pos + 1, value |-> ByteAt(img, pos)]

\* nom::number::complete::le_u16 at a position
le_u16_at(img, pos) ==
  IF img.len - pos < 2 THEN EofAt(pos)
  ELSE [kind |-> "Ok", pos |-> pos + 2,
        value |-> ByteAt(img, pos) + 256 * ByteAt(img, pos + 1)]

\* verify(le_u8, |val| *val == expected)
verify_le_u8(img, pos, expected) ==
  LET r == le_u8_at(img, pos)
  IN IF r.kind # "Ok" THEN r
     ELSE IF r.value # expected THEN [kind |-> "Error", code |-> "Verify", pos |-> pos]
     ELSE r

\* a tag that takes any two bytes
tag_AnyBytes(img, pos, t) ==
  IF img.len - pos < Len(t)
  THEN [kind |-> "Error", code |-> "Tag", pos |-> pos]
  ELSE [kind |-> "Ok", pos |-> pos + Len(t), value |-> t]

\* nom::bytes::complete::tag
tag(img, pos, t) ==
  IF img.len - pos < Len(t) \/ Bytes(img, pos, Len(t)) # t
  THEN [kind |-> "Error", code |-> "Tag", pos |-> pos]
  ELSE [kind |-> "Ok", pos |-> pos + Len(t), value |-> t]

\* bam_entry_parser
bam_entry_parser(img, pos) ==
  LET free_sectors_on_track == le_u8_at(img, pos)
  IN IF free_sectors_on_track.kind # "Ok" THEN free_sectors_on_track ELSE
  LET bm == take_at(img, free_sectors_on_track.pos, 3)
  IN IF bm.kind # "Ok" THEN bm ELSE
     [kind |-> "Ok", pos |-> bm.pos,
      value |-> [free_sectors_on_track |-> free_sectors_on_track.value,
                 sector_use_bitmap |-> bm.value]]

\* count(bam_entry_parser, 35_usize): entry k starts 4 * (k - 1) bytes on
count_bam_entry_parser(img, pos) ==
  LET entry(k) == bam_entry_parser(img, pos + 4 * (k - 1))
      failed == {k \in 1..35 : entry(k).kind # "Ok"}
  IN IF failed # {} THEN entry(Min(failed))
     ELSE [kind |-> "Ok", pos |-> pos + 4 * 35,
           value |-> [k \in 1..35 |-> entry(k).value]]

\* "2A"
DosTypeTag == <<50, 65>>

\* d64_block_availability_map_parser
d64_block_availability_map_parser(img) ==
  LET jump == skip_at(img, 0, 91392)
  IN IF jump.kind # "Ok" THEN jump ELSE
  LET first_directory_sector_track == verify_le_u8(img, jump.pos, 18)
  IN IF first_directory_sector_track.kind # "Ok" THEN first_directory_sector_track ELSE
  LET first_directory_sector_sector == verify_le_u8(img, first_directory_sector_track.pos, 1)
  IN IF first_directory_sector_sector.kind # "Ok" THEN first_directory_sector_sector ELSE
  LET disk_dos_version == verify_le_u8(img, first_directory_sector_sector.pos, 65)
  IN IF disk_dos_version.kind # "Ok" THEN disk_dos_version ELSE
  LET reserved == le_u8_at(img, disk_dos_version.pos)
  IN IF reserved.kind # "Ok" THEN reserved ELSE
  LET bam_entries == count_bam_entry_parser(img, reserved.pos)
  IN IF bam_entries.kind # "Ok" THEN bam_entries ELSE
  LET disk_name == take_at(img, bam_entries.pos, 16)
  IN IF disk_name.kind # "Ok" THEN disk_name ELSE
  LET second_reserved == take_at(img, disk_name.pos, 2)
  IN IF second_reserved.kind # "Ok" THEN second_reserved ELSE
  LET disk_id == le_u16_at(img, second_reserved.pos)
  IN IF disk_id.kind # "Ok" THEN disk_id ELSE
  LET third_reserved == le_u8_at(img, disk_id.pos)
  IN IF third_reserved.kind # "Ok" THEN third_reserved ELSE
  LET dos_type == tag(img, third_reserved.pos, DosTypeTag)
  IN IF dos_type.kind # "Ok" THEN dos_type ELSE
  LET shifted_spaces == take_at(img, dos_type.pos, 2)
  IN IF shifted_spaces.kind # "Ok" THEN shifted_spaces ELSE
  LET nulls == take_at(img, shifted_spaces.pos, 84)
  IN IF nulls.kind # "Ok" THEN nulls ELSE
  LET todofix == take_at(img, nulls.pos, 3)
  IN IF todofix.kind # "Ok" THEN todofix ELSE
     [kind |-> "Ok", pos |-> todofix.pos,
      value |-> [first_directory_sector_track |-> first_directory_sector_track.value,
                 first_directory_sector_sector |-> first_directory_sector_sector.value,
                 disk_dos_version |-> disk_dos_version.value,
                 reserved |-> reserved.value,
                 bam_entries |-> bam_entries.value,
                 disk_name |-> disk_name.value,
                 second_reserved |-> second_reserved.value,
                 disk_id |-> disk_id.value,
                 third_reserved |-> third_reserved.value,
                 dos_type |-> "CBM"]]

(***************************************************************************)
(* Inputs: a well-formed BAM sector at 0x16500, with or without a second   *)
(* "2A" at 0x16563, with up to MaxEdits bytes changed, in images that end  *)
(* up to MaxCut bytes before the end of the BAM sector, inside it, or at   *)
(* the full D64 size.                                                      *)
(***************************************************************************)
BamOffset == 91392

MaxEdits == 1

MaxCut == 2

\* offsets in the BAM sector that get changed
EditOffsets == {0, 1, 2, 3, 4, 99, 100, 101, 164, 165, 166, 167, 255}

EditBytes == {0, 1, 18, 50, 65, 66, 160}

GoodBam ==
  Patch(BamOffset, <<18, 1, 65, 0, 21, 255, 255, 31>>)
  @@ Patch(BamOffset + 144, <<71, 65, 77, 69>> \o Spaces(12))
  @@ Patch(BamOffset + 160, <<160, 160, 49, 50, 160, 50, 65, 160, 160>>)

\* the same with "2A" at offsets 0x63..0x64 of the sector as well
GoodBams == {GoodBam, Patch(BamOffset + 99, DosTypeTag) @@ GoodBam}

RECURSIVE EditedBams(_)
EditedBams(n) ==
  IF n = 0 THEN GoodBams
  ELSE LET prev == EditedBams(n - 1)
       IN prev \cup {(BamOffset + o :> v) @@ b :
                       b \in prev, o \in EditOffsets, v \in EditBytes}

D64Lengths ==
  {BamOffset + 256 - cut : cut \in 0..MaxCut}
  \cup {BamOffset, BamOffset + 3, BamOffset + 166, 174848}

D64Images ==
  {[len |-> n, bytes |-> b] : n \in D64Lengths, b \in EditedBams(MaxEdits)}

InitD64 ==
  /\ d64_image \in D64Images
  /\ d64_pc = "start"
  /\ d64_result = NoValue
  /\ ignore_checksums = "absent"
  /\ overflow_checks = "any"
  /\ NibIdle /\ AddrIdle /\ FeIdle /\ DosIdle /\ FpIdle /\ SvIdle /\ StxIdle /\ NdIdle /\ CeIdle /\ TlIdle /\ TbIdle /\ P4Idle /\ TsIdle /\ PpIdle /\ StIdle /\ TabIdle /\ CrcIdle /\ NzIdle /\ BsIdle

ParseBlockAvailabilityMap ==
  /\ d64_pc = "start"
  /\ d64_result' = d64_block_availability_map_parser(d64_image)
  /\ d64_pc' = "done"
  /\ UNCHANGED d64_image
  /\ UNCHANGED <<cfgVars, NotD64>>

NextD64 == ParseBlockAvailabilityMap

SpecD64 == InitD64 /\ [][NextD64]_vars

Accepted == d64_pc = "done" /\ d64_result.kind = "Ok"

Rejected == d64_pc = "done" /\ d64_result.kind = "Error"

MagicBytesOk ==
  /\ ByteAt(d64_image, 91392) = 18
  /\ ByteAt(d64_image, 91393) = 1
  /\ ByteAt(d64_image, 91394) = 65

\* C10 as stated: for every input accepted by
\* d64_block_availability_map_parser the bytes at 0x16500, 0x16501, 0x16502
\* are 0x12, 0x01, 0x41 and the two bytes at 0x16563..0x16564 are "2A"; any
\* input that deviates in one of these positions is rejected.
C10_Original ==
  LET ok == /\ MagicBytesOk
            /\ Bytes(d64_image, 91491, 2) = DosTypeTag
  IN /\ Accepted => ok
     /\ (d64_pc = "done" /\ ~ ok) => Rejected

\* C10, amended: the "2A" the parser requires is at 0x165A5..0x165A6
\* (offset 165 of the BAM sector, after the 4 header bytes, 35 BAM entries,
\* the 16-byte disk name, 2 reserved bytes, the disk id and 1 reserved
\* byte); an input that deviates at 0x16500..0x16502 or there is rejected.
C10_Amended ==
  LET ok == /\ MagicBytesOk
            /\ Bytes(d64_image, 91557, 2) = DosTypeTag
  IN /\ Accepted => ok
     /\ (d64_pc = "done" /\ ~ ok) => Rejected

\* an image is accepted whose bytes at 0x16563..0x16564 are not "2A"
C10_Witness ==
  /\ Accepted
  /\ Bytes(d64_image, 91557, 2) = DosTypeTag
  /\ Bytes(d64_image, 91491, 2) # DosTypeTag

\* a full-size image that differs from an accepted one only at 0x165A5 is
\* rejected at the tag
C10_WitnessRejected ==
  /\ Rejected
  /\ d64_image.len = 174848
  /\ MagicBytesOk
  /\ Bytes(d64_image, 91557, 2) # DosTypeTag
  /\ d64_result.code = "Tag"

(***************************************************************************)
(* Atari STX sector headers (stx/mod.rs, stx/sector.rs)                    *)
(***************************************************************************)
Xor16(a, b) == 256 * Xor8(a \div 256, b \div 256) + Xor8(a % 256, b % 256)

CCITT_CRC16_POLY == 4129

\* one turn of the loop of crc16_add_byte, n turns left
RECURSIVE Crc16Shift(_, _)
Crc16Shift(new_crc, n) ==
  IF n = 0 THEN new_crc
  ELSE IF new_crc >= 32768
       THEN Crc16Shift(Xor16((new_crc * 2) % 65536, CCITT_CRC16_POLY), n - 1)
       ELSE Crc16Shift((new_crc * 2) % 65536, n - 1)

\* the byte enters the low half of the CRC
crc16_add_byte_LowHalf(crc, byte) == Crc16Shift(Xor16(crc, byte), 8)

crc16_add_byte(crc, byte) == Crc16Shift(Xor16(crc, (byte * 256) % 65536), 8)

calculate_crc16(sector_header) ==
  LET crc0 == 65535
      crc1 == crc16_add_byte(crc0, 161)
      crc2 == crc16_add_byte(crc1, 161)
      crc3 == crc16_add_byte(crc2, 161)
      crc4 == crc16_add_byte(crc3, 254)
      crc5 == crc16_add_byte(crc4, sector_header.id_track)
      crc6 == crc16_add_byte(crc5, sector_header.id_head)
      crc7 == crc16_add_byte(crc6, sector_header.id_sector)
  IN crc16_add_byte(crc7, sector_header.id_size)

\* impl SanityCheck for STXSectorHeader
STXSectorHeader_check(sector_header) ==
  calculate_crc16(sector_header) = sector_header.id_crc

\* nom::number::complete::le_u32
le_u32(i) ==
  IF Len(i) < 4 THEN [kind |-> "Error", code |-> "Eof"]
  ELSE [kind |-> "Ok", rest |-> Drop(i, 4),
        value |-> i[1] + 256 * i[2] + 65536 * i[3] + 16777216 * i[4]]

be_u16_LowByteFirst(i) ==
  IF Len(i) < 2 THEN [kind |-> "Error", code |-> "Eof"]
  ELSE [kind |-> "Ok", rest |-> Drop(i, 2), value |-> i[1] + 256 * i[2]]

\* nom::number::complete::be_u16
be_u16(i) ==
  IF Len(i) < 2 THEN [kind |-> "Error", code |-> "Eof"]
  ELSE [kind |-> "Ok", rest |-> Drop(i, 2), value |-> 256 * i[1] + i[2]]

stx_sector_header_parser(i) ==
  LET data_offset == le_u32(i) IN
  IF data_offset.kind # "Ok" THEN data_offset ELSE
  LET bit_position == le_u16(data_offset.rest) IN
  IF bit_position.kind # "Ok" THEN bit_position ELSE
  LET read_time == le_u16(bit_position.rest) IN
  IF read_time.kind # "Ok" THEN read_time ELSE
  LET id_track == le_u8(read_time.rest) IN
  IF id_track.kind # "Ok" THEN id_track ELSE
  LET id_head == le_u8(id_track.rest) IN
  IF id_head.kind # "Ok" THEN id_head ELSE
  LET id_sector == le_u8(id_head.rest) IN
  IF id_sector.kind # "Ok" THEN id_sector ELSE
  LET id_size == le_u8(id_sector.rest) IN
  IF id_size.kind # "Ok" THEN id_size ELSE
  LET id_crc == be_u16(id_size.rest) IN
  IF id_crc.kind # "Ok" THEN id_crc ELSE
  LET fdc_status == le_u8(id_crc.rest) IN
  IF fdc_status.kind # "Ok" THEN fdc_status ELSE
  LET reserved == le_u8(fdc_status.rest) IN
  IF reserved.kind # "Ok" THEN reserved ELSE
  LET sector_header ==
        [data_offset |-> data_offset.value,
         bit_position |-> bit_position.value,
         read_time |-> read_time.value,
         id_track |-> id_track.value,
         id_head |-> id_head.value,
         id_sector |-> id_sector.value,
         id_size |-> id_size.value,
         id_crc |-> id_crc.value,
         fdc_status |-> fdc_status.value,
         reserved |-> reserved.value]
  IN IF ~ STXSectorHeader_check(sector_header)
     THEN Panic(<<"Invalid sector header">>)
     ELSE [kind |-> "Ok", rest |-> reserved.rest, value |-> sector_header]

\* The headers handed to the parser: every id byte from 0..MaxIdByte or one
\* of the usual values, a stored CRC that is the right one, the right one
\* with its two bytes exchanged or with one bit changed, the header cut
\* short, or followed by the first bytes of the next header.
MaxIdByte == 1

IdBytes == 0..MaxIdByte

IdSizes == {2, 3}

StoredCrcs(t, h, s, z) ==
  LET good == calculate_crc16([id_track |-> t, id_head |-> h,
                               id_sector |-> s, id_size |-> z])
  IN { <<good \div 256, good % 256>>,
       <<good % 256, good \div 256>>,
       <<Xor8(good \div 256, 1), good % 256>>,
       <<good \div 256, Xor8(good % 256, 128)>> }

HeaderOf(t, h, s, z, crc) ==
  <<0, 2, 0, 0, 64, 1, 7, 0>> \o <<t, h, s, z>> \o crc \o <<0, 0>>

FullHeaders ==
  UNION { { HeaderOf(t, h, s, z, crc) : crc \in StoredCrcs(t, h, s, z) } :
            <<t, h, s, z>> \in IdBytes \X {0, 1} \X IdBytes \X IdSizes }

CutLengths == {0, 3, 5, 7, 8, 9, 10, 11, 13, 14, 15}

StxHeaderBytes ==
  FullHeaders
  \cup { SubSeq(b, 1, n) : b \in FullHeaders, n \in CutLengths }
  \cup { b \o <<0, 2>> : b \in FullHeaders }

InitStx ==
  /\ stx_header_bytes \in StxHeaderBytes
  /\ stx_result = NoValue
  /\ ignore_checksums = "absent"
  /\ overflow_checks = "any"
  /\ NibIdle /\ AddrIdle /\ FeIdle /\ DosIdle /\ FpIdle /\ SvIdle /\ D64Idle /\ NdIdle /\ CeIdle /\ TlIdle /\ TbIdle /\ P4Idle /\ TsIdle /\ PpIdle /\ StIdle /\ TabIdle /\ CrcIdle /\ NzIdle /\ BsIdle

StxSectorHeaderParser ==
  /\ stx_result = NoValue
  /\ stx_result' = stx_sector_header_parser(stx_header_bytes)
  /\ UNCHANGED stx_header_bytes
  /\ UNCHANGED <<cfgVars, NotStx>>

NextStx == StxSectorHeaderParser

SpecStx == InitStx /\ [][NextStx]_vars

\* CRC-16/CCITT, initial value 0xFFFF, over a sequence of bytes
RECURSIVE Crc16Ccitt(_, _)
Crc16Ccitt(crc, bytes) ==
  IF bytes = <<>> THEN crc
  ELSE Crc16Ccitt(crc16_add_byte(crc, Head(bytes)), Tail(bytes))

IdCrcOf(bytes) == 256 * bytes[13] + bytes[14]

IdCrcRight(bytes) ==
  Crc16Ccitt(65535, <<161, 161, 161, 254>> \o SubSeq(bytes, 9, 12))
    = IdCrcOf(bytes)

\* C11: every STXSectorHeader returned by stx_sector_header_parser has
\* id_crc, read big-endian from header bytes 12..13, equal to the
\* CRC-16/CCITT (initial value 0xFFFF) over A1 A1 A1 FE id_track id_head
\* id_sector id_size; a 16-byte header whose stored CRC differs yields no
\* header: the parse ends with a panic.
C11_SectorHeaderCrc ==
  /\ stx_result.kind = "Ok" =>
       /\ Len(stx_header_bytes) >= 16
       /\ stx_result.value.id_crc = IdCrcOf(stx_header_bytes)
       /\ stx_result.value.id_track = stx_header_bytes[9]
       /\ stx_result.value.id_head = stx_header_bytes[10]
       /\ stx_result.value.id_sector = stx_header_bytes[11]
       /\ stx_result.value.id_size = stx_header_bytes[12]
       /\ IdCrcRight(stx_header_bytes)
  /\ ( /\ stx_result # NoValue
       /\ Len(stx_header_bytes) = 16
       /\ ~ IdCrcRight(stx_header_bytes) ) => stx_result.kind = "panic"

\* a header with the right CRC is returned, its CRC bytes not a palindrome
C11_Witness ==
  /\ stx_result.kind = "Ok"
  /\ stx_header_bytes[13] # stx_header_bytes[14]
  /\ IdCrcRight(stx_header_bytes)

\* a 16-byte header that stores the right CRC low byte first ends the parse
\* with a panic
C11_WitnessFatal ==
  /\ stx_result.kind = "panic"
  /\ Len(stx_header_bytes) = 16
  /\ Crc16Ccitt(65535, <<161, 161, 161, 254>> \o SubSeq(stx_header_bytes, 9, 12))
       = 256 * stx_header_bytes[14] + stx_header_bytes[13]

(***************************************************************************)
(* Nibble disks (nibble.rs): parse_nib_sector, parse_nib_disk              *)
(***************************************************************************)
DataPrologue == <<213, 170, 173>>

\* the value of an intermediate result, computed once and handed on
Bind(x, Then(_)) == CHOOSE v \in { Then(y) : y \in {x} } : TRUE

\* nom::number::complete::le_u8 is le_u8 above; the takes of nibble.rs are
\* the streaming ones
find_and_parse_data_field(i) ==
  LET AfterUntil(r0) ==
        IF r0.kind # "Ok" THEN r0 ELSE
        LET AfterPrologue(prologue) ==
              IF prologue.kind # "Ok" THEN prologue ELSE
              LET AfterData(data) ==
                    IF data.kind # "Ok" THEN data ELSE
                    LET AfterChecksum(checksum) ==
                          IF checksum.kind # "Ok" THEN checksum ELSE
                          LET AfterEpilogue(epilogue) ==
                                IF epilogue.kind # "Ok" THEN epilogue
                                ELSE [kind |-> "Ok", rest |-> epilogue.rest,
                                      value |-> [kind |-> "DataField",
                                                 data |-> [k \in 0..341 |-> data.value[k + 1]],
                                                 checksum |-> checksum.value]]
                          IN Bind(take_streaming(3, checksum.rest), AfterEpilogue)
                    IN Bind(le_u8(data.rest), AfterChecksum)
              IN Bind(take_streaming(342, prologue.rest), AfterData)
        IN Bind(take_streaming(3, r0.rest), AfterPrologue)
  IN Bind(take_until_streaming(DataPrologue, i), AfterUntil)

parse_nib_sector(setting, i) ==
  LET AfterHeader(header) ==
        IF header.kind # "Ok" THEN header ELSE
        LET AfterData(df) ==
              IF df.kind # "Ok" THEN df
              ELSE [kind |-> "Ok", rest |-> df.rest,
                    value |-> [address_field |-> header.value,
                               data_field |-> df.value]]
        IN Bind(find_and_parse_data_field(header.rest), AfterData)
  IN Bind(find_and_parse_address_field(setting, i), AfterHeader)

\* nom::multi::many0(parse_nib_sector(config)): an Error of the inner parser
\* ends the repetition with what was collected; Incomplete (and a panic)
\* passes through
RECURSIVE many0_parse_nib_sector(_, _, _)
many0_parse_nib_sector(setting, i, acc) ==
  LET AfterSector(r) ==
        IF r.kind = "Error" THEN [kind |-> "Ok", rest |-> i, value |-> acc]
        ELSE IF r.kind # "Ok" THEN r
        ELSE IF Len(r.rest) = Len(i) THEN [kind |-> "Error", code |-> "Many0"]
        ELSE Bind(Append(acc, r.value),
                  LAMBDA fields : many0_parse_nib_sector(setting, r.rest, fields))
  IN Bind(parse_nib_sector(setting, i), AfterSector)

\* the loop of parse_nib_disk over the fields: the first field of a
\* (volume, track, sector) is the one transformed and kept
RECURSIVE InsertFields(_, _, _)
InsertFields(setting, fields, disk) ==
  IF fields = <<>> THEN [kind |-> "NibbleDisk", sectors |-> disk]
  ELSE LET field == Head(fields)
           key == <<field.address_field.volume, field.address_field.track,
                    field.address_field.sector>>
           AfterTransform(sector) ==
             IF sector.kind = "panic" THEN sector
             ELSE Bind(disk @@ (key :> sector.data),
                       LAMBDA sectors : InsertFields(setting, Tail(fields), sectors))
       IN IF key \in DOMAIN disk
          THEN InsertFields(setting, Tail(fields), disk)
          ELSE Bind(transform_data_field(setting, field.data_field), AfterTransform)

parse_nib_disk(setting, i) ==
  LET AfterFields(fields) ==
        IF fields.kind # "Ok" THEN fields ELSE
        LET AfterInsert(disk) ==
              IF disk.kind = "panic" THEN disk
              ELSE [kind |-> "Ok", rest |-> fields.rest, value |-> disk]
        IN Bind(InsertFields(setting, fields.value, <<>>), AfterInsert)
  IN Bind(many0_parse_nib_sector(setting, i, <<>>), AfterFields)

(***************************************************************************)
(* Nibble images: up to MaxFields fields, each a 14-byte address field     *)
(* (prologue, volume, track, sector and checksum in 4-and-4, epilogue)     *)
(* and a 349-byte data field (prologue, 342 disk bytes, checksum byte,     *)
(* epilogue), and an ending: nothing, a further byte, or the last data     *)
(* field cut before its checksum byte.                                     *)
(***************************************************************************)
MaxFields == 2

Encode4And4(b) == << Or8(Shr8(b, 1), 170), Or8(b, 170) >>

AddressFieldBytes(volume, track, sector, checksum) ==
  AddressPrologue \o Encode4And4(volume) \o Encode4And4(track)
    \o Encode4And4(sector) \o Encode4And4(checksum) \o <<222, 170, 235>>

\* the 342 six-bit values of a data field: value k is (stride * k + first) % 64
DataValues(stride, first) == [k \in 1..342 |-> (stride * (k - 1) + first) % 64]

RECURSIVE XorAll(_, _, _)
XorAll(values, lo, hi) ==
  IF hi - lo = 1 THEN values[lo]
  ELSE LET mid == (lo + hi) \div 2
       IN Xor8(XorAll(values, lo, mid), XorAll(values, mid, hi))

\* the disk bytes of a data field holding the values: each value, and the
\* checksum that makes the XOR of all read-table lookups 0 (changed in one
\* bit when the field is to have a bad checksum), through the write table
DataFieldBytes(stride, first, good) ==
  LET values == DataValues(stride, first)
      sum == XorAll(values, 1, 343)
  IN DataPrologue \o [k \in 1..342 |-> WriteTable(values[k])]
       \o << WriteTable(IF good THEN sum ELSE Xor8(sum, 1)) >>
       \o <<222, 170, 235>>

\* a field of a layout: the address, whether its checksum is the right one,
\* the data values, whether their checksum is the right one
FieldLayouts ==
  { [volume |-> 254, track |-> 0, sector |-> 0, address_ok |-> TRUE,
     stride |-> 1, first |-> 0, data_ok |-> TRUE],
    [volume |-> 254, track |-> 0, sector |-> 1, address_ok |-> TRUE,
     stride |-> 3, first |-> 5, data_ok |-> TRUE],
    [volume |-> 254, track |-> 0, sector |-> 0, address_ok |-> TRUE,
     stride |-> 3, first |-> 5, data_ok |-> TRUE],
    [volume |-> 254, track |-> 0, sector |-> 1, address_ok |-> TRUE,
     stride |-> 1, first |-> 0, data_ok |-> FALSE],
    [volume |-> 254, track |-> 1, sector |-> 0, address_ok |-> FALSE,
     stride |-> 1, first |-> 0, data_ok |-> TRUE] }

Endings == {"end", "more", "cut"}

FieldBytes(f) ==
  LET sum == Xor8(Xor8(f.volume, f.track), f.sector)
  IN AddressFieldBytes(f.volume, f.track, f.sector,
                       IF f.address_ok THEN sum ELSE Xor8(sum, 1))
       \o DataFieldBytes(f.stride, f.first, f.data_ok)

RECURSIVE ConcatFields(_)
ConcatFields(fs) ==
  IF fs = <<>> THEN <<>> ELSE FieldBytes(Head(fs)) \o ConcatFields(Tail(fs))

NibbleImage(layout) ==
  LET bytes == ConcatFields(layout.fields)
  IN IF layout.ending = "end" THEN bytes
     ELSE IF layout.ending = "more" THEN bytes \o <<255>>
     ELSE SubSeq(bytes, 1, Len(bytes) - 4)

NibbleLayouts ==
  { [fields |-> fs, ending |-> e] :
      fs \in UNION { [1..n -> FieldLayouts] : n \in 0..MaxFields },
      e \in Endings } \ { [fields |-> <<>>, ending |-> "cut"] }

InitNibbleDisk ==
  /\ nibble_layout \in NibbleLayouts
  /\ nibble_image = NibbleImage(nibble_layout)
  /\ nd_result = NoValue
  /\ ignore_checksums \in IgnoreSettings
  /\ overflow_checks = "any"
  /\ NibIdle /\ AddrIdle /\ FeIdle /\ DosIdle /\ FpIdle /\ SvIdle /\ D64Idle /\ StxIdle /\ CeIdle /\ TlIdle /\ TbIdle /\ P4Idle /\ TsIdle /\ PpIdle /\ StIdle /\ TabIdle /\ CrcIdle /\ NzIdle /\ BsIdle

ParseNibDisk ==
  /\ nd_result = NoValue
  /\ nd_result' = parse_nib_disk(ignore_checksums, nibble_image)
  /\ UNCHANGED <<nibble_layout, nibble_image>>
  /\ UNCHANGED <<cfgVars, NotNd>>

NextNibbleDisk == ParseNibDisk

SpecNibbleDisk == InitNibbleDisk /\ [][NextNibbleDisk]_vars

\* the image is n >= 0 fields, each with the right address checksum and the
\* right data checksum, and ends after the last data field
WellFormedPairs ==
  /\ nibble_layout.ending = "end"
  /\ \A k \in DOMAIN nibble_layout.fields :
       nibble_layout.fields[k].address_ok /\ nibble_layout.fields[k].data_ok

NamedKeys ==
  { <<nibble_layout.fields[k].volume, nibble_layout.fields[k].track,
      nibble_layout.fields[k].sector>> : k \in DOMAIN nibble_layout.fields }

\* C12: for every input that is a concatenation of n >= 0 well-formed pairs
\* (14-byte address field with valid checksum, then 349-byte data field
\* with valid checksum) and that ends after the last data field,
\* parse_nib_disk returns successfully a NibbleDisk that holds a 256-byte
\* sector under each (volume, track, sector) key named by an address field,
\* and holds no other sector.
C12_NibDiskParsed ==
  (nd_result # NoValue /\ WellFormedPairs) =>
    /\ nd_result.kind = "Ok"
    /\ DOMAIN nd_result.value.sectors = NamedKeys
    /\ \A key \in NamedKeys : DOMAIN nd_result.value.sectors[key] = 0..255

\* every address field of the image has the right checksum
AddressChecksumsValid ==
  \A k \in DOMAIN nibble_layout.fields : nibble_layout.fields[k].address_ok

\* every data field of the image has the right checksum
DataChecksumsValid ==
  \A k \in DOMAIN nibble_layout.fields : nibble_layout.fields[k].data_ok

\* C18 as stated: the ignore-checksums option influences behaviour only at
\* the address-field checksum: for every nibble image in which every
\* address field has a valid checksum, decoding with ignore-checksums = true
\* and with ignore-checksums = false give the same outcome (the same disk,
\* or the same failure).
C18_Original ==
  (nd_result # NoValue /\ ignore_checksums = "true" /\ AddressChecksumsValid) =>
    nd_result = parse_nib_disk("false", nibble_image)

\* C18, amended: the option influences behaviour at the address-field
\* checksum and at the data-field checksum: for every nibble image in which
\* every address field and every data field has a valid checksum, decoding
\* with ignore-checksums = true and with ignore-checksums = false (or
\* absent) give the same outcome.
C18_Amended ==
  ( /\ nd_result # NoValue /\ ignore_checksums = "true"
    /\ AddressChecksumsValid /\ DataChecksumsValid ) =>
    /\ nd_result = parse_nib_disk("false", nibble_image)
    /\ nd_result = parse_nib_disk("absent", nibble_image)

\* an image with valid checksums throughout has been decoded to a disk with
\* ignore-checksums = true
C18_Witness ==
  /\ nd_result # NoValue
  /\ ignore_checksums = "true"
  /\ AddressChecksumsValid /\ DataChecksumsValid
  /\ nd_result.kind = "Ok"
  /\ DOMAIN nd_result.value.sectors # {}

\* an image whose address checksums are valid and whose first data field
\* has a bad checksum has been decoded to a disk with ignore-checksums =
\* true, where ignore-checksums = false ends in the panic
C18_WitnessDataChecksum ==
  /\ nd_result # NoValue
  /\ ignore_checksums = "true"
  /\ AddressChecksumsValid /\ ~ DataChecksumsValid
  /\ nd_result.kind = "Ok"
  /\ parse_nib_disk("false", nibble_image).kind = "panic"

(***************************************************************************)
(* File entries read from a catalog sector and written back (catalog.rs)   *)
(*                                                                         *)
(* The on-disk entries: a track/sector-list pointer, a type byte (one of   *)
(* the eight known codes or the unassigned code 3, with or without the     *)
(* locked bit), a name of 1..MaxNameLen high-bit ASCII bytes padded to 30  *)
(* bytes with 0xA0, and a length in sectors.                               *)
(***************************************************************************)
KnownFileTypeCodes == {0, 1, 2, 4, 8, 10, 20, 40}

HighBitNameBytes == {193, 200, 176}

OnDiskNames ==
  { q \o [k \in 1..(30 - Len(q)) |-> FilePadding] :
      q \in SeqsUpTo(HighBitNameBytes, MaxNameLen) \ { <<>> } }

OnDiskEntries ==
  { <<18, s, code + lock>> \o name \o little_endian_word_to_bytes(len) :
      s \in {15, 0}, code \in KnownFileTypeCodes \cup {3}, lock \in {0, 128},
      name \in OnDiskNames, len \in {2, 4660} }

InitCatalogEntry ==
  /\ catalog_entry_bytes \in OnDiskEntries
  /\ catalog_entry = NoValue
  /\ reserialized = NoValue
  /\ overflow_checks \in BOOLEAN
  /\ ignore_checksums = "absent"
  /\ NibIdle /\ AddrIdle /\ FeIdle /\ DosIdle /\ FpIdle /\ SvIdle /\ D64Idle /\ StxIdle /\ NdIdle /\ TlIdle /\ TbIdle /\ P4Idle /\ TsIdle /\ PpIdle /\ StIdle /\ TabIdle /\ CrcIdle /\ NzIdle /\ BsIdle

ParseCatalogEntry ==
  /\ catalog_entry_bytes # NoValue
  /\ catalog_entry = NoValue
  /\ catalog_entry' = parse_file_entry(catalog_entry_bytes)
  /\ UNCHANGED <<catalog_entry_bytes, reserialized>>
  /\ UNCHANGED <<cfgVars, NotCe>>

SerializeCatalogEntry ==
  /\ catalog_entry # NoValue
  /\ catalog_entry.kind = "Ok"
  /\ reserialized = NoValue
  /\ reserialized' = FileEntry_as_vec(catalog_entry.value, overflow_checks)
  /\ UNCHANGED <<catalog_entry_bytes, catalog_entry>>
  /\ UNCHANGED <<cfgVars, NotCe>>

NextCatalogEntry == ParseCatalogEntry \/ SerializeCatalogEntry

SpecCatalogEntry == InitCatalogEntry /\ [][NextCatalogEntry]_vars

\* a canonical on-disk entry: 35 bytes, a known file-type code, 30 name
\* bytes in high-bit ASCII right-padded with 0xA0
Canonical(bytes) ==
  /\ Len(bytes) = 35
  /\ And8(bytes[3], 127) \in KnownFileTypeCodes
  /\ \A k \in 4..33 : bytes[k] >= 128
  /\ bytes[4] # FilePadding
  /\ \A k \in 4..32 : bytes[k] = FilePadding => bytes[k + 1] = FilePadding

\* C16: for every canonical 35-byte on-disk file entry (known file-type
\* code, 30 name bytes in high-bit ASCII right-padded with 0xA0),
\* serializing the entry that parse_file_entry returns gives back the same
\* 35 bytes: as_vec(parse_file_entry(bytes)) = bytes.
C16_ParseThenSerialize ==
  (catalog_entry_bytes # NoValue /\ Canonical(catalog_entry_bytes)) =>
    /\ catalog_entry # NoValue => catalog_entry.kind = "Ok"
    /\ reserialized # NoValue =>
         reserialized = [kind |-> "Ok", value |-> catalog_entry_bytes]

(***************************************************************************)
(* Track/sector lists written and read back (catalog.rs)                   *)
(***************************************************************************)
\* impl Serializer for TrackSectorPairs: the pairs' bytes, one after another
TrackSectorPairs_as_vec(pairs) ==
  [k \in 1..(2 * Len(pairs)) |->
     IF k % 2 = 1 THEN pairs[(k + 1) \div 2].track_number
     ELSE pairs[k \div 2].sector_number]

\* impl Serializer for TrackSectorList
TrackSectorList_as_vec(tsl) ==
  [kind |-> "Ok",
   value |-> << tsl.reserved,
                IF tsl.track_number_of_next_sector.some
                THEN tsl.track_number_of_next_sector.value ELSE 0,
                IF tsl.sector_number_of_next_sector.some
                THEN tsl.sector_number_of_next_sector.value ELSE 0 >>
             \o tsl.reserved_2 \o tsl.sector_offset_in_file \o tsl.reserved_3
             \o TrackSectorPairs_as_vec(tsl.track_sector_pairs)]

\* The lists written: 0..MaxListPairs pairs, or as many as a sector holds
\* (122) or one less, every pair with a non-zero track; with or without a
\* continuation pointer.
MaxListPairs == 3

PairCounts == (0..MaxListPairs) \cup {max_tsps, max_tsps + 1}

PairsFrom(track, n) ==
  [k \in 1..n |-> [track_number |-> track + (k % 2), sector_number |-> k % 16]]

TrackSectorListsWritten ==
  { [reserved |-> r,
     track_number_of_next_sector |-> next[1],
     sector_number_of_next_sector |-> next[2],
     reserved_2 |-> <<2, 3>>,
     sector_offset_in_file |-> off,
     reserved_3 |-> <<6, 7, 8, 9, 16>>,
     track_sector_pairs |-> PairsFrom(track, n)] :
      r \in {0, 1}, next \in { <<None, None>>, <<Some(18), Some(14)>> },
      off \in { <<0, 0>>, <<122, 0>> }, track \in {1, 17}, n \in PairCounts }

InitTrackSectorList ==
  /\ tsl_list \in TrackSectorListsWritten
  /\ tsl_bytes = NoValue
  /\ tsl_parsed = NoValue
  /\ overflow_checks = "any"
  /\ ignore_checksums = "absent"
  /\ NibIdle /\ AddrIdle /\ FeIdle /\ DosIdle /\ FpIdle /\ SvIdle /\ D64Idle /\ StxIdle /\ NdIdle /\ CeIdle /\ TbIdle /\ P4Idle /\ TsIdle /\ PpIdle /\ StIdle /\ TabIdle /\ CrcIdle /\ NzIdle /\ BsIdle

TrackSectorListAsVec ==
  /\ tsl_list # NoValue
  /\ tsl_bytes = NoValue
  /\ tsl_bytes' = TrackSectorList_as_vec(tsl_list)
  /\ UNCHANGED <<tsl_list, tsl_parsed>>
  /\ UNCHANGED <<cfgVars, NotTl>>

ParseTrackSectorList ==
  /\ tsl_bytes # NoValue
  /\ tsl_bytes.kind = "Ok"
  /\ tsl_parsed = NoValue
  /\ tsl_parsed' = parse_track_sector_list(tsl_bytes.value)
  /\ UNCHANGED <<tsl_list, tsl_bytes>>
  /\ UNCHANGED <<cfgVars, NotTl>>

NextTrackSectorList == TrackSectorListAsVec \/ ParseTrackSectorList

SpecTrackSectorList == InitTrackSectorList /\ [][NextTrackSectorList]_vars

\* C17: for every TrackSectorList with 0 to 122 track/sector pairs, all
\* with non-zero track, parse_track_sector_list applied to the bytes of
\* as_vec(list) succeeds and returns a list with the same header fields,
\* the same continuation pointer and the same pairs in the same order.
C17_ListRoundTrip ==
  ( /\ tsl_parsed # NoValue
    /\ Len(tsl_list.track_sector_pairs) <= 122
    /\ \A k \in DOMAIN tsl_list.track_sector_pairs :
         tsl_list.track_sector_pairs[k].track_number # 0 ) =>
    /\ tsl_parsed.kind = "Ok"
    /\ tsl_parsed.value = tsl_list

(***************************************************************************)
(* Commodore D64 geometry (d64.rs)                                         *)
(***************************************************************************)
\* the match of track_to_block_length; a..b in a pattern leaves b out
track_to_block_length(track) ==
  IF track >= 1 /\ track < 17 THEN [kind |-> "Ok", value |-> 21]
  ELSE IF track >= 17 /\ track < 24 THEN [kind |-> "Ok", value |-> 19]
  ELSE IF track >= 24 /\ track < 30 THEN [kind |-> "Ok", value |-> 18]
  ELSE IF track >= 30 /\ track < 35 THEN [kind |-> "Ok", value |-> 17]
  ELSE [kind |-> "Err", err |-> "Invalid track number: {track}"]

InitTrackToBlockLength ==
  /\ tb_track \in Byte
  /\ tb_result = NoValue
  /\ overflow_checks = "any"
  /\ ignore_checksums = "absent"
  /\ NibIdle /\ AddrIdle /\ FeIdle /\ DosIdle /\ FpIdle /\ SvIdle /\ D64Idle /\ StxIdle /\ NdIdle /\ CeIdle /\ TlIdle /\ P4Idle /\ TsIdle /\ PpIdle /\ StIdle /\ TabIdle /\ CrcIdle /\ NzIdle /\ BsIdle

TrackToBlockLength ==
  /\ tb_result = NoValue
  /\ tb_result' = track_to_block_length(tb_track)
  /\ UNCHANGED tb_track
  /\ UNCHANGED <<cfgVars, NotTb>>

NextTrackToBlockLength == TrackToBlockLength

SpecTrackToBlockLength == InitTrackToBlockLength /\ [][NextTrackToBlockLength]_vars

\* C19: track_to_block_length(t) returns 21 for every track t in 1..17, 19
\* for t in 18..24, 18 for t in 25..30, 17 for t in 31..35, and an error for
\* every other t (0 and t > 35).
C19_BlocksPerTrack ==
  tb_result # NoValue =>
    IF tb_track \in 1..17 THEN tb_result = [kind |-> "Ok", value |-> 21]
    ELSE IF tb_track \in 18..24 THEN tb_result = [kind |-> "Ok", value |-> 19]
    ELSE IF tb_track \in 25..30 THEN tb_result = [kind |-> "Ok", value |-> 18]
    ELSE IF tb_track \in 31..35 THEN tb_result = [kind |-> "Ok", value |-> 17]
    ELSE tb_result.kind = "Err"

(***************************************************************************)
(* 4-and-4 decoding (nibble.rs): parse_nibble_byte_4_and_4 on its own      *)
(*                                                                         *)
(* The inputs: for every data byte, its two disk bytes with the data bits  *)
(* between one bits, and the two bytes that hold the same bits in their    *)
(* low halves under four one bits; alone, followed by a further byte, or   *)
(* cut to one byte; and the empty input.                                   *)
(***************************************************************************)
\* (1,b7,1,b5,1,b3,1,b1) and (1,b6,1,b4,1,b2,1,b0)
Interleaved(b) ==
  << 170 + 64 * Bit(b, 7) + 16 * Bit(b, 5) + 4 * Bit(b, 3) + Bit(b, 1),
     170 + 64 * Bit(b, 6) + 16 * Bit(b, 4) + 4 * Bit(b, 2) + Bit(b, 0) >>

\* (1,1,1,1,b7,b5,b3,b1) and (1,1,1,1,b6,b4,b2,b0)
HighOnes(b) ==
  << 240 + 8 * Bit(b, 7) + 4 * Bit(b, 5) + 2 * Bit(b, 3) + Bit(b, 1),
     240 + 8 * Bit(b, 6) + 4 * Bit(b, 4) + 2 * Bit(b, 2) + Bit(b, 0) >>

DiskBytePairs == { Interleaved(b) : b \in Byte } \cup { HighOnes(b) : b \in Byte }

PairInputs ==
  DiskBytePairs
  \cup { p \o <<222>> : p \in DiskBytePairs }
  \cup { <<p[1]>> : p \in DiskBytePairs }
  \cup { <<>> }

InitPair ==
  /\ pair_input \in PairInputs
  /\ pair_result = NoValue
  /\ overflow_checks = "any"
  /\ ignore_checksums = "absent"
  /\ NibIdle /\ AddrIdle /\ FeIdle /\ DosIdle /\ FpIdle /\ SvIdle /\ D64Idle /\ StxIdle /\ NdIdle /\ CeIdle /\ TlIdle /\ TbIdle /\ TsIdle /\ PpIdle /\ StIdle /\ TabIdle /\ CrcIdle /\ NzIdle /\ BsIdle

ParseNibbleByte4And4 ==
  /\ pair_result = NoValue
  /\ pair_result' = parse_nibble_byte_4_and_4(pair_input)
  /\ UNCHANGED pair_input
  /\ UNCHANGED <<cfgVars, NotP4>>

NextPair == ParseNibbleByte4And4

SpecPair == InitPair /\ [][NextPair]_vars

\* the outcome is ((first << 1) | 1) & second in 8 bits, two bytes consumed
ComputedFromPair ==
  /\ pair_result.kind = "Ok"
  /\ pair_result.value = And8(Or8((pair_input[1] * 2) % 256, 1), pair_input[2])
  /\ pair_result.rest = SubSeq(pair_input, 3, Len(pair_input))

C20_WitnessHighOnes ==
  /\ pair_result # NoValue
  /\ pair_input = HighOnes(0)
  /\ pair_result.kind = "Ok"
  /\ pair_result.value = 224

(***************************************************************************)
(* Track/sector-list sectors (catalog.rs): parse_track_sector_list on a    *)
(* whole sector                                                            *)
(*                                                                         *)
(* The sectors: a 12-byte header, then 122 pairs.  The pairs before the    *)
(* terminator have non-zero tracks; the terminator, a pair of track 0, is  *)
(* one of the first MaxTerminator pairs, pair 120, 121 or 122, or absent;  *)
(* what follows it is zero or further pairs.                               *)
(***************************************************************************)
MaxTerminator == 3

PairsPerSector == (SectorSize - 12) \div 2

TerminatorPlaces == (1..MaxTerminator) \cup {PairsPerSector - 2, PairsPerSector - 1,
                                             PairsPerSector, PairsPerSector + 1}

\* byte k (from 1) of the pair area of a sector
PairAreaByte(k, place, terminator_sector, filled, style) ==
  LET j == (k + 1) \div 2
      is_track == k % 2 = 1
  IN IF j = place THEN (IF is_track THEN 0 ELSE terminator_sector)
     ELSE IF j > place /\ ~ filled THEN 0
     ELSE IF is_track THEN 1 + ((style * j) % 34)
     ELSE (j + style) % 16

ListSector(next, place, terminator_sector, filled, style) ==
  <<0, next[1], next[2], 0, 0, 0, 0, 0, 0, 0, 0, 0>>
  \o [k \in 1..(2 * PairsPerSector) |->
        PairAreaByte(k, place, terminator_sector, filled, style)]

ListSectors ==
  { ListSector(next, place, ts, filled, style) :
      next \in {<<0, 0>>, <<10, 12>>}, place \in TerminatorPlaces,
      ts \in {0, 5}, filled \in BOOLEAN, style \in {1, 3} }

InitListSector ==
  /\ list_sector \in ListSectors
  /\ list_sector_result = NoValue
  /\ overflow_checks = "any"
  /\ ignore_checksums = "absent"
  /\ NibIdle /\ AddrIdle /\ FeIdle /\ DosIdle /\ FpIdle /\ SvIdle /\ D64Idle /\ StxIdle /\ NdIdle /\ CeIdle /\ TlIdle /\ TbIdle /\ P4Idle /\ PpIdle /\ StIdle /\ TabIdle /\ CrcIdle /\ NzIdle /\ BsIdle

ParseListSector ==
  /\ list_sector_result = NoValue
  /\ list_sector_result' = parse_track_sector_list(list_sector)
  /\ UNCHANGED list_sector
  /\ UNCHANGED <<cfgVars, NotTs>>

NextListSector == ParseListSector

SpecListSector == InitListSector /\ [][NextListSector]_vars

\* pair j (from 1) of the sector, as it is on disk
PairOnDisk(j) ==
  [track_number |-> list_sector[12 + 2 * j - 1],
   sector_number |-> list_sector[12 + 2 * j]]

\* the number of the first pair whose track is 0; PairsPerSector + 1 when
\* there is none
FirstZeroTrack ==
  Min({j \in 1..PairsPerSector : PairOnDisk(j).track_number = 0}
      \cup {PairsPerSector + 1})

\* C22: for every 256-byte track/sector-list sector, parse_track_sector_list
\* returns exactly the pairs that precede the first pair whose track is 0,
\* in on-disk order; when none of the 122 pairs has track 0 it returns all
\* 122 pairs.
C22_PairsBeforeFirstZeroTrack ==
  list_sector_result # NoValue =>
    /\ list_sector_result.kind = "Ok"
    /\ list_sector_result.value.track_sector_pairs
         = [j \in 1..(FirstZeroTrack - 1) |-> PairOnDisk(j)]

(***************************************************************************)
(* parse_prologue (nibble.rs), one loop iteration a step                   *)
(*                                                                         *)
(* The inputs are all byte strings of up to MaxInput bytes over D5, AA,    *)
(* 96, B5 and 00.  Offsets count from 0.                                   *)
(***************************************************************************)
MaxInput == 5

PrologueAlphabet == {213, 170, 150, 181, 0}

PrologueInputs == UNION { [1..n -> PrologueAlphabet] : n \in 0..MaxInput }

\* nom::character::complete::one_of(list)
one_of(list, i) ==
  IF i = <<>> THEN [kind |-> "Error", code |-> "OneOf"]
  ELSE IF i[1] \in list THEN [kind |-> "Ok", rest |-> Tail(i), value |-> i[1]]
  ELSE [kind |-> "Error", code |-> "OneOf"]

\* a search that goes on after the byte that follows the pair
next_search_start_AfterThird(pair_at) == pair_at + 3

\* new_i = &i[2..], i starting at the pair found at offset pair_at
next_search_start(pair_at) == pair_at + 2

InitPrologue ==
  /\ prologue_input \in PrologueInputs
  /\ new_i = 0
  /\ matched_pair = <<>>
  /\ loop_count = 0
  /\ prologue_result = NoValue
  /\ overflow_checks = "any"
  /\ ignore_checksums = "absent"
  /\ NibIdle /\ AddrIdle /\ FeIdle /\ DosIdle /\ FpIdle /\ SvIdle /\ D64Idle /\ StxIdle /\ NdIdle /\ CeIdle /\ TlIdle /\ TbIdle /\ P4Idle /\ TsIdle /\ StIdle /\ TabIdle /\ CrcIdle /\ NzIdle /\ BsIdle

\* one iteration of the loop of parse_prologue
ParsePrologueLoop ==
  /\ prologue_result = NoValue
  /\ loop_count' = loop_count + 1
  /\ LET r == take_until_streaming(<<213, 170>>, Drop(prologue_input, new_i))
     IN IF r.kind # "Ok"
        THEN /\ prologue_result' = r
             /\ UNCHANGED <<new_i, matched_pair>>
        ELSE LET pair_at == new_i + Len(r.value)
                 result == one_of({150, 181},
                                  Drop(prologue_input, next_search_start(pair_at)))
             IN /\ new_i' = next_search_start(pair_at)
                /\ matched_pair' = Append(matched_pair, pair_at)
                /\ prologue_result' =
                     IF result.kind = "Ok"
                     THEN [kind |-> "Ok", rest |-> result.rest,
                           value |-> Drop(prologue_input, pair_at)]
                     ELSE NoValue
  /\ UNCHANGED prologue_input
  /\ UNCHANGED <<cfgVars, NotPp>>

NextPrologue == ParsePrologueLoop

SpecPrologue == InitPrologue /\ [][NextPrologue]_vars

\* the offsets at which a prologue D5 AA 96 or D5 AA B5 starts
PrologueOffsets ==
  { k \in 0..(Len(prologue_input) - 3) :
      /\ prologue_input[k + 1] = 213 /\ prologue_input[k + 2] = 170
      /\ prologue_input[k + 3] \in {150, 181} }

\* the scan ends, on the first prologue or with Incomplete: the loop runs at
\* most once for every two bytes and once more, and its outcome is the first
\* prologue when there is one and Incomplete when there is none
ScanEnds ==
  /\ loop_count <= Len(prologue_input) \div 2 + 1
  /\ prologue_result # NoValue =>
       IF PrologueOffsets = {}
       THEN prologue_result = [kind |-> "Incomplete"]
       ELSE /\ prologue_result.kind = "Ok"
            /\ prologue_result.value = Drop(prologue_input, Min(PrologueOffsets))
            /\ prologue_result.rest = Drop(prologue_input, Min(PrologueOffsets) + 3)

\* the loop has found D5 AA, the byte after the pair was neither 96 nor B5,
\* and the loop goes on
Mismatched ==
  /\ matched_pair # <<>>
  /\ prologue_result = NoValue
  /\ Len(prologue_input) >= matched_pair[Len(matched_pair)] + 3

\* C23 as stated: in parse_prologue, when the bytes D5 AA are found and the
\* third byte is neither 0x96 nor 0xB5, scanning continues from the byte
\* after the mismatching third byte, not from the matched pair; the scan
\* terminates on every finite input, with the first prologue found or with
\* a 'needs more data' failure.
C23_Original ==
  /\ Mismatched => new_i = matched_pair[Len(matched_pair)] + 3
  /\ ScanEnds

\* C23, amended: when the bytes D5 AA are found and the third byte is
\* neither 0x96 nor 0xB5, scanning continues from the mismatching third byte
\* itself, the byte after the matched pair; the scan terminates on every
\* finite input, with the first prologue found or with a 'needs more data'
\* failure.
C23_Amended ==
  /\ Mismatched => new_i = matched_pair[Len(matched_pair)] + 2
  /\ ScanEnds

\* on D5 AA D5 AA 96 the first pair was a false start whose third byte
\* starts the prologue, and the prologue has been found
C23_Witness ==
  /\ prologue_input = <<213, 170, 213, 170, 150>>
  /\ matched_pair = <<0, 2>>
  /\ prologue_result # NoValue
  /\ prologue_result.kind = "Ok"
  /\ prologue_result.rest = <<>>

\* on D5 AA 00, the input of the repository's test, the scan has ended with
\* Incomplete after one false start
C23_WitnessIncomplete ==
  /\ prologue_input = <<213, 170, 0>>
  /\ matched_pair = <<0>>
  /\ prologue_result = [kind |-> "Incomplete"]

(***************************************************************************)
(* Atari STX tracks (stx/track.rs, stx/sector.rs)                          *)
(*                                                                         *)
(* The parsers work on an image [len, bytes] and a position in it.  A      *)
(* slice of sector data is given by where it starts and how long it is.    *)
(***************************************************************************)
le_u32_at(img, pos) ==
  IF img.len - pos < 4 THEN EofAt(pos)
  ELSE [kind |-> "Ok", pos |-> pos + 4,
        value |-> ByteAt(img, pos) + 256 * ByteAt(img, pos + 1)
                    + 65536 * ByteAt(img, pos + 2) + 16777216 * ByteAt(img, pos + 3)]

\* stx_track_header_parser: seven complete number parsers over 16 bytes
stx_track_header_parser(img, pos) ==
  IF img.len - pos < 16 THEN EofAt(pos)
  ELSE [kind |-> "Ok", pos |-> pos + 16,
        value |-> [block_size |-> le_u32_at(img, pos).value,
                   fuzzy_size |-> le_u32_at(img, pos + 4).value,
                   sectors_count |-> le_u16_at(img, pos + 8).value,
                   flags |-> le_u16_at(img, pos + 10).value,
                   mfm_size |-> le_u16_at(img, pos + 12).value,
                   track_number |-> ByteAt(img, pos + 14),
                   record_type |-> ByteAt(img, pos + 15)]]

\* (flags & mask) != 0 for a mask of one bit, bit k
FlagSet(flags, k) == (flags \div Pow2(k)) % 2 = 1

\* impl SanityCheck for STXTrackHeader
STXTrackHeader_check(header) ==
  IF (header.flags # 33) /\ (header.flags # 97) /\ (header.flags # 193)
  THEN FALSE
  ELSE IF (~ FlagSet(header.flags, 6)) /\ (header.sectors_count > 0)
  THEN FALSE
  ELSE TRUE

sector_size_as_bytes(size) ==
  IF size = 2 THEN 512 ELSE IF size = 3 THEN 1024 ELSE 0

\* stx_sector_parser_plain(n): count(take(512), n)
stx_sector_parser_plain(n, img, pos) ==
  IF img.len - pos < 512 * n
  THEN EofAt(pos + 512 * ((img.len - pos) \div 512))
  ELSE [kind |-> "Ok", pos |-> pos + 512 * n,
        value |-> [k \in 1..n |-> [at |-> pos + 512 * (k - 1), len |-> 512]]]

\* count(stx_sector_header_parser, n), headers being those already parsed
RECURSIVE count_stx_sector_header_parser(_, _, _, _)
count_stx_sector_header_parser(n, img, pos, headers) ==
  IF n = 0 THEN [kind |-> "Ok", pos |-> pos, value |-> headers]
  ELSE LET Then(r) ==
             IF r.kind = "panic" THEN r
             ELSE IF r.kind # "Ok" THEN EofAt(pos)
             ELSE count_stx_sector_header_parser(n - 1, img, pos + 16,
                                                 Append(headers, r.value))
       IN Bind(stx_sector_header_parser(Bytes(img, pos, Min({16, img.len - pos}))),
               Then)

\* stx_track_image_header_parser(flags): two cond(.., le_u16)
stx_track_image_header_parser(flags, img, pos) ==
  LET first_sync_offset ==
        IF FlagSet(flags, 6) /\ FlagSet(flags, 7)
        THEN le_u16_at(img, pos)
        ELSE [kind |-> "Ok", pos |-> pos, value |-> 0]
  IN IF first_sync_offset.kind # "Ok" THEN first_sync_offset ELSE
  LET track_image_size ==
        IF FlagSet(flags, 6)
        THEN le_u16_at(img, first_sync_offset.pos)
        ELSE [kind |-> "Ok", pos |-> first_sync_offset.pos, value |-> 0]
  IN IF track_image_size.kind # "Ok" THEN track_image_size
     ELSE [kind |-> "Ok", pos |-> track_image_size.pos,
           value |-> [first_sync_offset |-> first_sync_offset.value,
                      track_image_size |-> track_image_size.value]]

\* stx_sector_data_parser(headers): every sector is looked up from the same
\* position, and the position is not moved
stx_sector_data_parser(headers, img, pos) ==
  LET Fits(h) == img.len - pos >= h.data_offset
      Holds(h) == img.len - (pos + h.data_offset) >= sector_size_as_bytes(h.id_size)
      bad == { k \in 1..Len(headers) : ~ (Fits(headers[k]) /\ Holds(headers[k])) }
  IN IF bad # {}
     THEN EofAt(IF Fits(headers[Min(bad)])
                THEN pos + headers[Min(bad)].data_offset ELSE pos)
     ELSE [kind |-> "Ok", pos |-> pos,
           value |-> [k \in 1..Len(headers) |->
                        [at |-> pos + headers[k].data_offset,
                         len |-> sector_size_as_bytes(headers[k].id_size)]]]

\* a last step that counts the block from the end of the track header
SkipToNextBlock_AfterHeader(img, starting_position, header, sector_headers, sector_data) ==
  LET r == skip_at(img, starting_position + 16, header.block_size)
  IN IF r.kind # "Ok" THEN r
     ELSE [kind |-> "Ok", pos |-> r.pos,
           value |-> [header |-> header, sector_headers |-> sector_headers,
                      sector_data |-> sector_data]]

\* the last step of stx_track_parser: take(block_size)(starting_position)
SkipToNextBlock(img, starting_position, header, sector_headers, sector_data) ==
  LET r == skip_at(img, starting_position, header.block_size)
  IN IF r.kind # "Ok" THEN r
     ELSE [kind |-> "Ok", pos |-> r.pos,
           value |-> [header |-> header, sector_headers |-> sector_headers,
                      sector_data |-> sector_data]]

\* the branch of stx_track_parser for a track with sector headers
ParseSectorHeaders(img, starting_position, i, header) ==
  IF header.fuzzy_size > 0
  THEN Panic(<<"Fuzzy bytes reading not implemented">>)
  ELSE IF header.sectors_count > 0
  THEN LET AfterHeaders(hs) ==
             IF hs.kind # "Ok" THEN hs ELSE
             LET skipped == skip_at(img, hs.pos, header.fuzzy_size)
             IN IF skipped.kind # "Ok" THEN skipped ELSE
             LET image_header == stx_track_image_header_parser(header.flags, img,
                                                               skipped.pos)
             IN IF image_header.kind # "Ok" THEN image_header ELSE
             LET data == stx_sector_data_parser(hs.value, img, skipped.pos)
             IN IF data.kind # "Ok" THEN data
                ELSE SkipToNextBlock(img, starting_position, header,
                                     Some(hs.value), Some(data.value))
       IN Bind(count_stx_sector_header_parser(header.sectors_count, img, i, <<>>),
               AfterHeaders)
  ELSE SkipToNextBlock(img, starting_position, header, None, None)

\* stx_track_parser on the input that starts at starting_position
stx_track_parser(img, starting_position) ==
  LET AfterHeader(h) ==
        IF h.kind # "Ok" THEN h
        ELSE IF ~ STXTrackHeader_check(h.value)
        THEN Panic(<<"Invalid data">>)
        ELSE IF ~ FlagSet(h.value.flags, 0)
        THEN IF h.value.sectors_count > 0
             THEN LET plain == stx_sector_parser_plain(h.value.sectors_count, img, h.pos)
                  IN IF plain.kind # "Ok" THEN plain
                     ELSE SkipToNextBlock(img, starting_position, h.value, None, None)
             ELSE SkipToNextBlock(img, starting_position, h.value, None, None)
        ELSE ParseSectorHeaders(img, starting_position, h.pos, h.value)
  IN Bind(stx_track_header_parser(img, starting_position), AfterHeader)

(***************************************************************************)
(* STX images: one or two tracks.  A track is laid out from its flags,     *)
(* its sector count (up to MaxTrackSectors), its fuzzy size, the data      *)
(* offset and size code of its sectors and its block size; the sector      *)
(* headers carry the right CRC.  The second track starts where the block   *)
(* of the first ends; after the last block come tail bytes.                *)
(***************************************************************************)
MaxTrackSectors == 2

Le16(v) == <<v % 256, v \div 256>>

Le32(v) == <<v % 256, (v \div 256) % 256, (v \div 65536) % 256, v \div 16777216>>

SectorHeaderBytes(k, t) ==
  LET crc == calculate_crc16([id_track |-> 0, id_head |-> 0, id_sector |-> k,
                              id_size |-> t.id_size])
  IN Le32(t.data_offset) \o <<64, 1, 7, 0>> \o <<0, 0, k, t.id_size>>
       \o <<crc \div 256, crc % 256>> \o <<0, 0>>

RECURSIVE SectorHeadersBytes(_, _)
SectorHeadersBytes(k, t) ==
  IF k > t.sectors_count THEN <<>>
  ELSE SectorHeaderBytes(k, t) \o SectorHeadersBytes(k + 1, t)

TrackBytes(t) ==
  Le32(t.block_size) \o Le32(t.fuzzy_size) \o Le16(t.sectors_count)
    \o Le16(t.flags) \o <<116, 24, 0, 0>>
    \o (IF t.flags % 2 = 1 THEN SectorHeadersBytes(1, t) ELSE <<>>)

TrackFlags == {33, 97, 193, 0, 64, 98}

BlockSizes == {8, 16, 40, 1200}

AllTrackLayouts ==
  [flags : TrackFlags, sectors_count : 0..MaxTrackSectors, fuzzy_size : {0, 4},
   data_offset : {0, 7}, id_size : {2, 3}, block_size : BlockSizes]

\* the tracks an image of two tracks starts with
FirstTrackLayouts ==
  { t \in AllTrackLayouts :
      /\ t.flags \in {33, 97, 193} /\ t.sectors_count <= 1 /\ t.fuzzy_size = 0
      /\ t.data_offset = 0 /\ t.id_size = 2 /\ t.block_size >= 16 }

SecondTrackLayouts ==
  { t \in AllTrackLayouts : t.block_size \in {16, 1200} /\ t.data_offset = 7 }

StxLayouts ==
  { <<t>> : t \in AllTrackLayouts }
  \cup { <<t1, t2>> : t1 \in FirstTrackLayouts, t2 \in SecondTrackLayouts }

StxImage(layout, tail) ==
  IF Len(layout) = 1
  THEN [len |-> layout[1].block_size + tail,
        bytes |-> Patch(0, TrackBytes(layout[1]))]
  ELSE [len |-> layout[1].block_size + layout[2].block_size + tail,
        bytes |-> Patch(0, TrackBytes(layout[1]))
                  @@ Patch(layout[1].block_size, TrackBytes(layout[2]))]

StxImages ==
  { [image |-> StxImage(layout, tail), n |-> Len(layout)] :
      layout \in StxLayouts, tail \in {0, 1100} }

InitStxTracks ==
  /\ \E input \in StxImages :
       /\ stx_image = input.image
       /\ stx_tracks_left = input.n
  /\ stx_position = 0
  /\ stx_tracks = <<>>
  /\ stx_tracks_result = NoValue
  /\ overflow_checks = "any"
  /\ ignore_checksums = "absent"
  /\ NibIdle /\ AddrIdle /\ FeIdle /\ DosIdle /\ FpIdle /\ SvIdle /\ D64Idle /\ StxIdle /\ NdIdle /\ CeIdle /\ TlIdle /\ TbIdle /\ P4Idle /\ TsIdle /\ PpIdle /\ TabIdle /\ CrcIdle /\ NzIdle /\ BsIdle

\* one stx_track_parser call of count(stx_track_parser, n)
StxTrackParser ==
  /\ stx_tracks_result = NoValue
  /\ stx_tracks_left > 0
  /\ LET Then(r) ==
           IF r.kind = "Ok"
           THEN /\ stx_tracks' = Append(stx_tracks,
                                        [start |-> stx_position, track |-> r.value])
                /\ stx_position' = r.pos
                /\ stx_tracks_left' = stx_tracks_left - 1
                /\ UNCHANGED stx_tracks_result
           ELSE /\ stx_tracks_result' = r
                /\ UNCHANGED <<stx_tracks, stx_position, stx_tracks_left>>
     IN \E r \in {stx_track_parser(stx_image, stx_position)} : Then(r)
  /\ UNCHANGED stx_image
  /\ UNCHANGED <<cfgVars, NotSt>>

\* count(stx_track_parser, n) has parsed its n tracks
StxTracksParserReturn ==
  /\ stx_tracks_result = NoValue
  /\ stx_tracks_left = 0
  /\ stx_tracks_result' = [kind |-> "Ok", pos |-> stx_position,
                           value |-> [k \in 1..Len(stx_tracks) |-> stx_tracks[k].track]]
  /\ UNCHANGED <<stx_image, stx_tracks_left, stx_position, stx_tracks>>
  /\ UNCHANGED <<cfgVars, NotSt>>

NextStxTracks == StxTrackParser \/ StxTracksParserReturn

SpecStxTracks == InitStxTracks /\ [][NextStxTracks]_vars

\* the header of the track that starts at position p, and whether the image
\* holds what a plain track of that header takes: the header, sectors_count
\* sectors of 512 bytes, and the whole block
TrackHeaderAt(p) == stx_track_header_parser(stx_image, p).value

PlainTrackAt(p) ==
  /\ stx_image.len - p >= 16
  /\ ~ FlagSet(TrackHeaderAt(p).flags, 0)
  /\ stx_image.len - (p + 16) >= 512 * TrackHeaderAt(p).sectors_count
  /\ stx_image.len - p >= TrackHeaderAt(p).block_size

\* the call of stx_track_parser at stx_position has failed
TrackCallFailed == stx_tracks_result # NoValue /\ stx_tracks_left > 0

\* C24: stx_track_parser accepts a track header whose flags have bit 0 clear
\* and treats the sectors_count * 512 bytes that follow the 16-byte header
\* as that track's plain 512-byte sectors: a call on such a track, its bytes
\* all there, does not fail.
C24_PlainTrackAccepted ==
  ~ (TrackCallFailed /\ PlainTrackAt(stx_position))

\* the block size stored in the four bytes at position p
BlockSizeAt(p) ==
  ByteAt(stx_image, p) + 256 * ByteAt(stx_image, p + 1)
    + 65536 * ByteAt(stx_image, p + 2) + 16777216 * ByteAt(stx_image, p + 3)

\* where the input that was left started after the k-th successful call
PositionAfter(k) ==
  IF k < Len(stx_tracks) THEN stx_tracks[k + 1].start ELSE stx_position

\* C25: after every successful stx_track_parser call the remaining input
\* starts exactly block_size bytes after the first byte of that track's
\* header, whatever the sector count, the flags, the fuzzy size and the
\* sector data offsets; the next track is parsed from that position.
C25_NextTrackAtBlockEnd ==
  /\ \A k \in 1..Len(stx_tracks) :
       PositionAfter(k) = stx_tracks[k].start + BlockSizeAt(stx_tracks[k].start)
  /\ (stx_tracks_result # NoValue /\ stx_tracks_result.kind = "Ok") =>
       stx_tracks_result.pos = stx_position

\* a first track of block size 40 with one sector of 512 bytes, which lies
\* beyond the block, and a second track parsed from offset 40
C25_Witness ==
  /\ Len(stx_tracks) = 2
  /\ stx_tracks[1].start = 0
  /\ stx_tracks[1].track.header.block_size = 40
  /\ stx_tracks[1].track.header.sectors_count = 1
  /\ stx_tracks[1].track.sector_data = Some(<< [at |-> 32, len |-> 512] >>)
  /\ stx_tracks[2].start = 40
  /\ stx_tracks[2].track.header.flags = 193
  /\ stx_position = 40 + stx_tracks[2].track.header.block_size

\* a track of block size 8, less than its header, has been parsed
C25_WitnessShortBlock ==
  /\ Len(stx_tracks) = 1
  /\ stx_tracks[1].track.header.block_size = 8
  /\ stx_position = 8

(***************************************************************************)
(* The 6-and-2 tables (nibble.rs), looked up at every index                *)
(***************************************************************************)
InitTables ==
  /\ table_index \in Byte
  /\ table_lookup = NoValue
  /\ overflow_checks = "any"
  /\ ignore_checksums = "absent"
  /\ NibIdle /\ AddrIdle /\ FeIdle /\ DosIdle /\ FpIdle /\ SvIdle /\ D64Idle /\ StxIdle /\ NdIdle /\ CeIdle /\ TlIdle /\ TbIdle /\ P4Idle /\ TsIdle /\ PpIdle /\ StIdle /\ CrcIdle /\ NzIdle /\ BsIdle

\* NIBBLE_READ_TABLE_6_AND_2[index]; for an index below 64 also
\* NIBBLE_WRITE_TABLE_6_AND_2[index] and the read table's entry for it
LookUpTables ==
  /\ table_lookup = NoValue
  /\ table_lookup' =
       [read |-> ReadTable(table_index),
        write |-> IF table_index < 64 THEN Some(WriteTable(table_index)) ELSE None,
        read_back |-> IF table_index < 64
                      THEN Some(ReadTable(WriteTable(table_index))) ELSE None]
  /\ UNCHANGED table_index
  /\ UNCHANGED <<cfgVars, NotTab>>

NextTables == LookUpTables

SpecTables == InitTables /\ [][NextTables]_vars

\* C26: the 6-and-2 tables are mutually inverse: the 64 entries of the
\* write table are strictly increasing values in 0x96..0xFF; for every k in
\* 0..63 the read table's entry for write-table entry k is k; and for every
\* byte that is not an entry of the write table the read table holds 0.
C26_TablesInverse ==
  /\ Len(NIBBLE_WRITE_TABLE_6_AND_2) = 64
  /\ Len(NIBBLE_READ_TABLE_6_AND_2) = 256
  /\ \A k \in 1..63 : NIBBLE_WRITE_TABLE_6_AND_2[k] < NIBBLE_WRITE_TABLE_6_AND_2[k + 1]
  /\ \A k \in 1..64 : NIBBLE_WRITE_TABLE_6_AND_2[k] \in 150..255
  /\ table_lookup # NoValue =>
       /\ table_index < 64 =>
            /\ table_lookup.write = Some(NIBBLE_WRITE_TABLE_6_AND_2[table_index + 1])
            /\ table_lookup.read_back = Some(table_index)
       /\ (\A k \in 1..64 : NIBBLE_WRITE_TABLE_6_AND_2[k] # table_index) =>
            table_lookup.read = 0
       /\ \A k \in 1..64 :
            NIBBLE_WRITE_TABLE_6_AND_2[k] = table_index => table_lookup.read = k - 1

\* the last entry of the write table, 0xFF, has been looked up in both
\* tables and read back as 63
C26_Witness ==
  /\ table_lookup # NoValue
  /\ table_index = 63
  /\ table_lookup.write = Some(255)
  /\ table_lookup.read_back = Some(63)

\* 0xFF has been looked up in the read table
C26_WitnessRead ==
  /\ table_lookup # NoValue
  /\ table_index = 255
  /\ table_lookup.read = 63

(***************************************************************************)
(* crc16_add_byte (stx/mod.rs) against the bit-serial CRC-16/CCITT         *)
(***************************************************************************)
CrcSeeds == {65535} \cup { 2113 * k : k \in 0..31 }

InitCrc ==
  /\ crc_before \in CrcSeeds
  /\ crc_byte \in Byte
  /\ crc_after = NoValue
  /\ overflow_checks = "any"
  /\ ignore_checksums = "absent"
  /\ NibIdle /\ AddrIdle /\ FeIdle /\ DosIdle /\ FpIdle /\ SvIdle /\ D64Idle /\ StxIdle /\ NdIdle /\ CeIdle /\ TlIdle /\ TbIdle /\ P4Idle /\ TsIdle /\ PpIdle /\ StIdle /\ TabIdle /\ NzIdle /\ BsIdle

Crc16AddByte ==
  /\ crc_after = NoValue
  /\ crc_after' = [crc |-> crc16_add_byte(crc_before, crc_byte)]
  /\ UNCHANGED <<crc_before, crc_byte>>
  /\ UNCHANGED <<cfgVars, NotCrc>>

NextCrc == Crc16AddByte

SpecCrc == InitCrc /\ [][NextCrc]_vars

\* the textbook register: bit k of a 16-bit value
BitOf(v, k) == (v \div (2 ^ k)) % 2

\* the XOR of two 16-bit values, bit by bit
RECURSIVE BitXor(_, _, _)
BitXor(a, b, k) ==
  IF k = 16 THEN 0
  ELSE ((BitOf(a, k) + BitOf(b, k)) % 2) * (2 ^ k) + BitXor(a, b, k + 1)

\* one message bit enters the CRC-16/CCITT register, most significant bit
\* first: the register shifts left within 16 bits and the polynomial
\* x^16 + x^12 + x^5 + 1 is subtracted when the bit shifted out differs from
\* the message bit
CcittBit(reg, bit) ==
  LET shifted == (reg * 2) % 65536
  IN  IF BitOf(reg, 15) # bit THEN BitXor(shifted, 4096 + 32 + 1, 0) ELSE shifted

\* the eight bits of a byte, from bit 7 down to bit 0; no final XOR
RECURSIVE CcittByte(_, _, _)
CcittByte(reg, b, k) ==
  IF k < 0 THEN reg ELSE CcittByte(CcittBit(reg, BitOf(b, k)), b, k - 1)

\* C27: crc16_add_byte(crc, byte) is the most-significant-bit-first
\* CRC-16/CCITT step with polynomial 0x1021, truncated to 16 bits, without a
\* final XOR; in particular crc16_add_byte(0xFFFF, 0x01) = 0xF1D1.
C27_CcittStep ==
  /\ CCITT_CRC16_POLY = 4096 + 32 + 1
  /\ crc_after # NoValue =>
       /\ crc_after.crc = CcittByte(crc_before, crc_byte, 7)
       /\ crc_after.crc \in 0..65535
       /\ (crc_before = 65535 /\ crc_byte = 1) => crc_after.crc = 61905

\* 0x01 has been added to 0xFFFF
C27_Witness ==
  /\ crc_after # NoValue
  /\ crc_before = 65535
  /\ crc_byte = 1
  /\ crc_after.crc = 61905

(***************************************************************************)
(* nibblize_data (nibble.rs): the 6-and-2 encoding of a run of blocks      *)
(***************************************************************************)
MaxBlocks == 3

\* the slice &data[lo..hi] of a sequence of bytes, as a buffer indexed from 0
SliceOf(data, lo, hi) == [x \in 0..(hi - lo - 1) |-> data[lo + x + 1]]

\* the bytes of a buffer indexed from 0, as a sequence
AsBytes(buffer, n) == [x \in 1..n |-> buffer[x - 1]]

\* build_nibble_sector(block).data; the copy from &data[..256] panics on a
\* block shorter than 256 bytes
SectorDataOf(data, lo, hi) ==
  IF hi - lo < 256
  THEN Panic(<<"range end index 256 out of range for slice of length", hi - lo>>)
  ELSE [kind |-> "Ok",
        data |-> AsBytes(build_nibble_sector(SliceOf(data, lo, hi)).data, 342)]

\* the while loop of nibblize_data, entered with i and output_data
RECURSIVE nibblize_loop(_, _, _)
nibblize_loop(data, i, output_data) ==
  IF (i + 256) < Len(data)
  THEN nibblize_loop(data, i + 256,
                     output_data \o SectorDataOf(data, i, i + 256).data)
  ELSE [i |-> i, output_data |-> output_data]

nibblize_data(data) ==
  LET AfterLoop(looped) ==
        LET i == IF looped.i > 0 THEN looped.i - 256 ELSE looped.i
            Append_(last) ==
              IF last.kind # "Ok" THEN last
              ELSE [kind |-> "Ok", data |-> looped.output_data \o last.data]
        IN Bind(SectorDataOf(data, i, Len(data)), Append_)
  IN Bind(nibblize_loop(data, 0, <<>>), AfterLoop)

\* inputs: up to MaxBlocks 256-byte blocks out of three buffers, and
\* possibly one byte more
BlockChoices ==
  { SectorBuffer(0, 0, 0, 0), SectorBuffer(1, 0, 0, 0), SectorBuffer(3, 1, 255, 7) }

RECURSIVE Concat(_)
Concat(seqs) == IF seqs = <<>> THEN <<>> ELSE Head(seqs) \o Concat(Tail(seqs))

NibblizeInputs ==
  { Concat([j \in 1..k |-> AsBytes(blocks[j], 256)]) \o extra :
      k \in 0..MaxBlocks, blocks \in [1..MaxBlocks -> BlockChoices],
      extra \in {<<>>, <<9>>} }

InitNibblize ==
  /\ nibblize_input \in NibblizeInputs
  /\ nibblized = NoValue
  /\ overflow_checks = "any"
  /\ ignore_checksums = "absent"
  /\ NibIdle /\ AddrIdle /\ FeIdle /\ DosIdle /\ FpIdle /\ SvIdle /\ D64Idle /\ StxIdle /\ NdIdle /\ CeIdle /\ TlIdle /\ TbIdle /\ P4Idle /\ TsIdle /\ PpIdle /\ StIdle /\ TabIdle /\ CrcIdle /\ BsIdle

NibblizeData ==
  /\ nibblized = NoValue
  /\ nibblized' = nibblize_data(nibblize_input)
  /\ UNCHANGED nibblize_input
  /\ UNCHANGED <<cfgVars, NotNz>>

NextNibblize == NibblizeData

SpecNibblize == InitNibblize /\ [][NextNibblize]_vars

\* the 6-and-2 encoding of the j-th 256-byte block of the input, j from 0
EncodedBlock(j) ==
  AsBytes(build_nibble_sector(SliceOf(nibblize_input, 256 * j, 256 * j + 256)).data, 342)

WholeBlocks == Len(nibblize_input) \div 256

\* C29: for every input of length 256*k with k >= 1, nibblize_data returns
\* 342*k bytes that are the concatenation, in order, of the 6-and-2
\* encodings of the k consecutive 256-byte blocks of the input, each block
\* encoded exactly once.
C29_EveryBlockOnce ==
  (/\ nibblized # NoValue
   /\ WholeBlocks >= 1
   /\ Len(nibblize_input) = 256 * WholeBlocks)
    => /\ nibblized.kind = "Ok"
       /\ Len(nibblized.data) = 342 * WholeBlocks
       /\ nibblized.data = Concat([j \in 1..WholeBlocks |-> EncodedBlock(j - 1)])

\* what nibblize_data returns for two blocks or more: the blocks but the
\* last, in order, and then the last but one a second time
C29_LastButOneTwice ==
  (/\ nibblized # NoValue
   /\ WholeBlocks >= 2
   /\ Len(nibblize_input) = 256 * WholeBlocks)
    => /\ nibblized.kind = "Ok"
       /\ nibblized.data =
            Concat([j \in 1..WholeBlocks |->
                      IF j < WholeBlocks THEN EncodedBlock(j - 1)
                      ELSE EncodedBlock(WholeBlocks - 2)])

\* one block alone is encoded once
C29_SingleBlock ==
  (nibblized # NoValue /\ Len(nibblize_input) = 256)
    => (nibblized.kind = "Ok" /\ nibblized.data = EncodedBlock(0))

(***************************************************************************)
(* The boot sector sum (stx/sector.rs)                                     *)
(***************************************************************************)
\* count(be_u16, 0x100): 256 big-endian words, or the error of the first
\* be_u16 that finds fewer than two bytes
parse_boot_sector_as_words(sector_data) ==
  IF Len(sector_data) < 512 THEN [kind |-> "Error", code |-> "Eof"]
  ELSE [kind |-> "Ok", rest |-> Drop(sector_data, 512),
        value |-> [k \in 1..256 |->
                     be_u16(SubSeq(sector_data, 2 * k - 1, 2 * k)).value]]

\* the for loop over words[lo..hi-1], entered with sum (the loop is split
\* in halves to keep the evaluation shallow)
RECURSIVE boot_sector_sum_loop(_, _, _, _)
boot_sector_sum_loop(words, lo, hi, sum) ==
  IF hi - lo = 1 THEN (sum + words[lo]) % 65535
  ELSE LET SecondHalf(s) == boot_sector_sum_loop(words, (lo + hi) \div 2, hi, s)
       IN Bind(boot_sector_sum_loop(words, lo, (lo + hi) \div 2, sum), SecondHalf)

calculate_boot_sector_sum_from_words(sector_data) ==
  LET Sum_(words_result) ==
        IF words_result.kind # "Ok"
        THEN Panic("Parsing failed for boot sector checksum")
        ELSE [kind |-> "Ok",
              value |-> boot_sector_sum_loop(words_result.value, 1, 257, 0) = 4660]
  IN Bind(parse_boot_sector_as_words(sector_data), Sum_)

\* inputs: sectors of zero bytes but for the first two words and the last
\* one, and the same two bytes shorter or longer
BootWords == {0, 1, 4660, 4661, 60876, 65535}

BootSectorLengths == {510, 512, 514}

BootSector(w0, w1, w255, n) ==
  [x \in 1..n |->
     CASE x = 1 -> w0 \div 256
       [] x = 2 -> w0 % 256
       [] x = 3 -> w1 \div 256
       [] x = 4 -> w1 % 256
       [] x = 511 -> w255 \div 256
       [] x = 512 -> w255 % 256
       [] OTHER -> 0]

InitBootSector ==
  /\ boot_sector \in { BootSector(w0, w1, w255, n) :
                         w0 \in BootWords, w1 \in BootWords, w255 \in BootWords,
                         n \in BootSectorLengths }
  /\ boot_sector_sum = NoValue
  /\ overflow_checks = "any"
  /\ ignore_checksums = "absent"
  /\ NibIdle /\ AddrIdle /\ FeIdle /\ DosIdle /\ FpIdle /\ SvIdle /\ D64Idle /\ StxIdle /\ NdIdle /\ CeIdle /\ TlIdle /\ TbIdle /\ P4Idle /\ TsIdle /\ PpIdle /\ StIdle /\ TabIdle /\ CrcIdle /\ NzIdle

CalculateBootSectorSum ==
  /\ boot_sector_sum = NoValue
  /\ boot_sector_sum' = calculate_boot_sector_sum_from_words(boot_sector)
  /\ UNCHANGED boot_sector
  /\ UNCHANGED <<cfgVars, NotBs>>

NextBootSector == CalculateBootSectorSum

SpecBootSector == InitBootSector /\ [][NextBootSector]_vars

\* the sum of the big-endian words of boot_sector[lo..hi-1] (lo odd)
RECURSIVE BigEndianWordSum(_, _)
BigEndianWordSum(lo, hi) ==
  IF hi - lo = 2 THEN 256 * boot_sector[lo] + boot_sector[lo + 1]
  ELSE LET mid == lo + 2 * ((hi - lo) \div 4)
       IN BigEndianWordSum(lo, mid) + BigEndianWordSum(mid, hi)

\* C30: for every 512-byte sector, calculate_boot_sector_sum_from_words
\* returns true if and only if the sum of its 256 big-endian 16-bit words,
\* taken modulo 2^16, equals 0x1234.
C30_SumModulo65536 ==
  (boot_sector_sum # NoValue /\ Len(boot_sector) = 512)
    => /\ boot_sector_sum.kind = "Ok"
       /\ boot_sector_sum.value <=> (BigEndianWordSum(1, 513) % 65536 = 4660)

\* what the code returns on 512 bytes of which three words are not zero:
\* true exactly when the sum leaves 0x1234 on division by 0xFFFF, the
\* running sum being reduced modulo 0xFFFF after every word
C30_SumModulo65535 ==
  (boot_sector_sum # NoValue /\ Len(boot_sector) = 512)
    => /\ boot_sector_sum.kind = "Ok"
       /\ boot_sector_sum.value <=> (BigEndianWordSum(1, 513) % 65535 = 4660)

====
